---- MODULE Spec2Model ----
(***************************************************************************)
(* State-machine model of the self-organizing-map package (som.go,         *)
(* dataset.go): the data set, the selectors, the neurons initializers, the *)
(* input adapters and the SOM engine (Learn, Test, ComputeDistanceMatrix). *)
(*                                                                         *)
(* Numbers.  A float64 is modelled bit for bit: a small dyadic number is   *)
(* the pair <<n, d>> in lowest terms, any other one the triple <<s, m, e>> *)
(* of its sign, odd significand and exponent of two, and every operation   *)
(* rounds as the float64 operation does (see "float64 arithmetic").  Go    *)
(* slices are 0-based: At(s, i) reads element i of a sequence.             *)
(***************************************************************************)
EXTENDS Integers, Sequences, FiniteSets, TLC

VARIABLES
    ds,        \* the heap of data sets: id -> DataSet.Vectors
    cfg,       \* the pluggable components of the SOM (fields of struct SOM)
    seqSel,    \* the SequentialSelector object: set, idx
    randSel,   \* the RandSelector object: dataSet, perm, idx
    selOut,    \* what the last Selector.Next call returned
    hist,      \* the results of the Next calls since the last Selector.Init
    calls,     \* number of calls made by the client so far
    panic,     \* "none", or the run-time panic that ended the program
    neurons,   \* SOM.Neurons
    pc,        \* "idle", or "loop" inside the loop of Learn
    learn,     \* the running Learn call: set, iterationsNumber T, loop counter it
    monitor,   \* the ItCompleted calls the Monitor got in the last Learn: <<it, itNum>>
    initW,     \* the weights as the Initializer of the last Learn left them
    dsAtCall,  \* the heap of data sets as it was when Learn was last called
    vec,       \* the vector the client handed to its last Test or ComputeDistanceMatrix
    queries,   \* number of Test and ComputeDistanceMatrix calls so far
    ret        \* the last call of the client and what it returned

engineVars == <<neurons, pc, learn, monitor, initW, dsAtCall, vec, queries, ret>>

vars == <<ds, cfg, seqSel, randSel, selOut, hist, calls, panic,
          neurons, pc, learn, monitor, initW, dsAtCall, vec, queries, ret>>

----------------------------------------------------------------------------
(* Bounds of the model *)

\* longest data set
MaxLen == 2
\* coordinates held by the client's data sets altogether
MaxHeap == 3
\* calls a client makes on a selector it uses directly
MaxSelCalls == 6
\* Learn and LearnEntire calls a client makes on a SOM
MaxLearns == 2
\* Test and ComputeDistanceMatrix calls a client makes on a SOM
MaxQueries == 2
\* largest iterationsNumber given to Learn
MaxIter == 2

\* widths of the data vectors
Widths == {1, 2}

\* coordinate values of the data vectors
Vals == {0, 1}
\* the data sets living on the heap
DsIds == {"ds1", "ds2"}
Nil == "nil"

----------------------------------------------------------------------------
(* float64 arithmetic *)

RECURSIVE GCD(_, _)
GCD(a, b) == IF b = 0 THEN a ELSE GCD(b, a % b)

Abs(n) == IF n < 0 THEN -n ELSE n

\* Natural numbers too long for a machine integer are kept as sequences of
\* digits in base Base, lowest digit first, without a leading zero digit.

\* bits of the significand of a float64
MantissaBits == 53

DigitBits == 13
Base == 2^DigitBits

\* The value of a long computation that is used more than once is computed
\* once: the expression using it is evaluated for x drawn from the set
\* {value}.

\* number of bits of the natural number x
RECURSIVE BitLen(_)
BitLen(x) == IF x = 0 THEN 0 ELSE 1 + BitLen(x \div 2)

RECURSIVE BigTrim(_)
BigTrim(a) ==
    IF a = <<>> \/ a[Len(a)] # 0 THEN a ELSE BigTrim(SubSeq(a, 1, Len(a) - 1))

BigOfInt(x) == BigTrim(<<x % Base, (x \div Base) % Base, x \div (Base * Base)>>)

RECURSIVE BigToInt(_)
BigToInt(a) == IF a = <<>> THEN 0 ELSE a[1] + Base * BigToInt(Tail(a))

\* a * m + carry for a machine integer m > 0
RECURSIVE BigMulSmall(_, _, _)
BigMulSmall(a, m, carry) ==
    IF a = <<>> THEN (IF carry = 0 THEN <<>> ELSE <<carry>>)
    ELSE <<(a[1] * m + carry) % Base>> \o
         BigMulSmall(Tail(a), m, (a[1] * m + carry) \div Base)

\* the digits of a \div m for a machine integer m, given the remainder rem
\* of the digits above them
RECURSIVE BigDivSmall(_, _, _)
BigDivSmall(a, m, rem) ==
    IF a = <<>> THEN <<>>
    ELSE BigDivSmall(SubSeq(a, 1, Len(a) - 1), m, (rem * Base + a[Len(a)]) % m)
         \o <<(rem * Base + a[Len(a)]) \div m>>

\* a % m for a machine integer m, given the remainder rem of the digits above
RECURSIVE BigModSmall(_, _, _)
BigModSmall(a, m, rem) ==
    IF a = <<>> THEN rem
    ELSE BigModSmall(SubSeq(a, 1, Len(a) - 1), m, (rem * Base + a[Len(a)]) % m)

RECURSIVE BigInc(_)
BigInc(a) ==
    IF a = <<>> THEN <<1>>
    ELSE IF a[1] + 1 < Base THEN <<a[1] + 1>> \o Tail(a)
    ELSE <<0>> \o BigInc(Tail(a))

BigIsOdd(a) == a # <<>> /\ a[1] % 2 = 1

BigBitLen(a) ==
    IF a = <<>> THEN 0 ELSE DigitBits * (Len(a) - 1) + BitLen(a[Len(a)])

\* a * 2^k
BigShiftLeft(a, k) ==
    IF a = <<>> THEN a
    ELSE [d \in 1..(k \div DigitBits) |-> 0] \o BigMulSmall(a, 2^(k % DigitBits), 0)

\* a \div 2^k
BigShiftRight(a, k) ==
    BigTrim(BigDivSmall(SubSeq(a, k \div DigitBits + 1, Len(a)), 2^(k % DigitBits), 0))

\* is one of the k lowest bits of a a one
BigLowBits(a, k) ==
    \/ \E t \in 1..Len(a) : t <= k \div DigitBits /\ a[t] # 0
    \/ k \div DigitBits < Len(a) /\ a[k \div DigitBits + 1] % 2^(k % DigitBits) # 0

\* round to nearest, ties to even: is the kept part incremented
RoundsUp(guard, sticky, lastOdd) == guard /\ (sticky \/ lastOdd)

\* a with its lowest bit rounded away
BigRoundLastBit(a, sticky) ==
    CHOOSE r \in {IF RoundsUp(BigIsOdd(a), sticky, BigIsOdd(kept)) THEN BigInc(kept)
                  ELSE kept : kept \in {BigShiftRight(a, 1)}} : TRUE

\* a < b, a + b, a - b (for a >= b) and a * b of long naturals
RECURSIVE BigLessFrom(_, _, _)
BigLessFrom(a, b, k) ==
    IF k = 0 THEN FALSE
    ELSE IF a[k] # b[k] THEN a[k] < b[k]
    ELSE BigLessFrom(a, b, k - 1)

BigLess(a, b) ==
    IF Len(a) # Len(b) THEN Len(a) < Len(b) ELSE BigLessFrom(a, b, Len(a))

RECURSIVE BigAddCarry(_, _, _)
BigAddCarry(a, b, carry) ==
    IF a = <<>> /\ b = <<>> THEN (IF carry = 0 THEN <<>> ELSE <<carry>>)
    ELSE LET v == (IF a = <<>> THEN 0 ELSE a[1]) + (IF b = <<>> THEN 0 ELSE b[1]) + carry
         IN  <<v % Base>> \o BigAddCarry(IF a = <<>> THEN a ELSE Tail(a),
                                         IF b = <<>> THEN b ELSE Tail(b), v \div Base)

BigAdd(a, b) == BigAddCarry(a, b, 0)

RECURSIVE BigSubBorrow(_, _, _)
BigSubBorrow(a, b, borrow) ==
    IF a = <<>> THEN <<>>
    ELSE LET v == a[1] - (IF b = <<>> THEN 0 ELSE b[1]) - borrow
         IN  <<(v + Base) % Base>> \o
             BigSubBorrow(Tail(a), IF b = <<>> THEN b ELSE Tail(b), IF v < 0 THEN 1 ELSE 0)

BigSub(a, b) == BigTrim(BigSubBorrow(a, b, 0))

\* a * b + acc * Base^k, where k is the number of digits of a
RECURSIVE BigMulAdd(_, _, _)
BigMulAdd(a, b, acc) ==
    IF a = <<>> THEN acc
    ELSE BigMulAdd(SubSeq(a, 1, Len(a) - 1), b,
                   BigAdd(BigMulSmall(b, a[Len(a)], 0),
                          IF acc = <<>> THEN acc ELSE <<0>> \o acc))

BigMul(a, b) == BigTrim(BigMulAdd(a, b, <<>>))

\* the largest digit q <= guess with d * q <= cur
RECURSIVE QuotientDigit(_, _, _)
QuotientDigit(cur, d, guess) ==
    IF BigLess(cur, BigTrim(BigMulSmall(d, guess, 0))) THEN QuotientDigit(cur, d, guess - 1)
    ELSE guess

\* The two highest digits of the dividend cur divided by the highest digit of
\* d, which is at least Base \div 2, are at most two above the digit of the
\* quotient.
QuotientGuess(cur, d) ==
    LET top == (IF Len(cur) > Len(d) THEN cur[Len(d) + 1] * Base ELSE 0)
               + (IF Len(cur) >= Len(d) THEN cur[Len(d)] ELSE 0)
    IN  IF top \div d[Len(d)] < Base THEN top \div d[Len(d)] ELSE Base - 1

\* One step of the long division by d: the dividend cur, which is the
\* remainder of the higher digits with one more digit brought down, gives the
\* next digit of the quotient quot.
BigDivStep(cur, quot, d) ==
    CHOOSE r \in {[quot |-> <<q>> \o quot, rem |-> BigSub(cur, BigTrim(BigMulSmall(d, q, 0)))] :
                  q \in {QuotientDigit(cur, d, QuotientGuess(cur, d))}} : TRUE

RECURSIVE BigDivModFrom(_, _)
BigDivModFrom(a, d) ==
    IF a = <<>> THEN [quot |-> <<>>, rem |-> <<>>]
    ELSE CHOOSE r \in {BigDivStep(BigTrim(<<a[1]>> \o hi.rem), hi.quot, d) :
                       hi \in {BigDivModFrom(Tail(a), d)}} : TRUE

\* quotient and remainder of a by the long natural d > 0, which is shifted
\* to bring its highest digit to Base \div 2 at least
BigDivModBy(a, d, up) ==
    CHOOSE q \in {[quot |-> BigTrim(r.quot), rem |-> BigShiftRight(r.rem, up)] :
                  r \in {BigDivModFrom(BigShiftLeft(a, up), BigShiftLeft(d, up))}} : TRUE

BigDivMod(a, d) == BigDivModBy(a, d, DigitBits - BitLen(d[Len(d)]))

\* the integer part of the square root of the machine integer x, built from
\* acc bit by bit
RECURSIVE IntRootFrom(_, _, _)
IntRootFrom(x, acc, bit) ==
    IF bit = 0 THEN acc
    ELSE IF (acc + 2^(bit - 1)) * (acc + 2^(bit - 1)) <= x
    THEN IntRootFrom(x, acc + 2^(bit - 1), bit - 1)
    ELSE IntRootFrom(x, acc, bit - 1)

\* Newton's iteration for the integer root of a, downwards from r >= root
RECURSIVE BigRootBelow(_, _)
BigRootBelow(a, r) ==
    CHOOSE root \in {IF BigLess(next, r) THEN BigRootBelow(a, next) ELSE r :
                     next \in {BigShiftRight(BigAdd(r, BigDivMod(a, r).quot), 1)}} : TRUE

\* the integer part of the square root of a # 0: the iteration starts from
\* the root of the one or two highest digits, followed by the highest digits
BigRoot(a) ==
    BigRootBelow(a, [d \in 1..((Len(a) - 1) \div 2) |-> Base - 1] \o
                    <<IntRootFrom(BigToInt(SubSeq(a, 2 * ((Len(a) - 1) \div 2) + 1, Len(a))),
                                  0, DigitBits)>>)

\* number of zero bits at the low end of a # 0
RECURSIVE TrailingZeros(_)
TrailingZeros(x) == IF x % 2 = 1 THEN 0 ELSE 1 + TrailingZeros(x \div 2)

RECURSIVE BigTrailingZeros(_)
BigTrailingZeros(a) ==
    IF a[1] # 0 THEN TrailingZeros(a[1]) ELSE DigitBits + BigTrailingZeros(Tail(a))

\* A float64 is one of
\*   <<n, d>>     the number n/d in lowest terms, d a power of two, with
\*                |n| < Base and d <= Base;
\*   <<s, m, e>>  any other finite number s * m * 2^e: s is 1 or -1, m an odd
\*                long natural of at most MantissaBits bits;
\*   <<1, 0>>, <<-1, 0>>, <<0, 0>>   +Inf, -Inf and NaN;
\*   <<"float64", "sqrt", n, d>>     the float64 math.Sqrt returns for n/d,
\*                a number of the first kind that is not a square.
\* Every operation rounds its exact result to MantissaBits bits, to nearest
\* and ties to even, as the float64 operations of Go do.  The exponent is
\* not bounded (no overflow to Inf, no subnormal numbers) and zero has no
\* sign.
\*
\* The last kind keeps a root by its argument until its digits are needed.
\* Two numbers of the first kind that differ, differ by more than one part
\* in Base^2, so that the roots of two of them are different float64s in
\* the order of their arguments, and no such root is a number of the first
\* kind: roots are compared by their arguments, and any arithmetic on a
\* root first computes its digits (Num).

PosInf == <<1, 0>>
NegInf == <<-1, 0>>
NaN == <<0, 0>>

IsRoot(a) == Len(a) = 4
IsNaN(a) == a = NaN
IsInf(a) == a = PosInf \/ a = NegInf
IsZero(a) == Len(a) = 2 /\ a[1] = 0 /\ a[2] # 0
Sign(a) == IF a[1] < 0 THEN -1 ELSE IF a[1] > 0 THEN 1 ELSE 0

\* the finite number a as sign, long natural and exponent of two
Exact(a) ==
    IF Len(a) = 3 THEN [s |-> a[1], m |-> a[2], e |-> a[3]]
    ELSE [s |-> IF a[1] < 0 THEN -1 ELSE 1, m |-> BigOfInt(Abs(a[1])),
          e |-> 1 - BitLen(a[2])]

\* the float64 that is exactly s * odd * 2^exp, odd an odd long natural
FloatOdd(s, odd, exp) ==
    IF Len(odd) = 1 /\ exp <= 0 /\ -exp <= DigitBits THEN <<s * odd[1], 2^(-exp)>>
    ELSE IF Len(odd) = 1 /\ exp > 0 /\ exp + BitLen(odd[1]) <= DigitBits
    THEN <<s * odd[1] * 2^exp, 1>>
    ELSE <<s, odd, exp>>

\* the float64 that is exactly s * m * 2^e
Float(s, m, e) ==
    IF m = <<>> THEN <<0, 1>>
    ELSE CHOOSE r \in {FloatOdd(s, BigShiftRight(m, tz), e + tz) :
                       tz \in {BigTrailingZeros(m)}} : TRUE

\* (m + f) * 2^e rounded to MantissaBits bits, where 0 < f < 1 if sticky and
\* f = 0 if not; m has at least MantissaBits + 2 bits if sticky
Rounded(m, e, sticky, drop) ==
    IF drop <= 0 THEN [m |-> m, e |-> e]
    ELSE [m |-> BigRoundLastBit(BigShiftRight(m, drop - 1),
                                sticky \/ BigLowBits(m, drop - 1)),
          e |-> e + drop]

\* the float64 nearest to s * (m + f) * 2^e
FloatRound(s, m, e, sticky) ==
    CHOOSE r \in {Float(s, p.m, p.e) :
                  p \in {Rounded(m, e, sticky, BigBitLen(m) - MantissaBits)}} : TRUE

\* float64(n) of the integer n
F(n) ==
    IF Abs(n) < Base THEN <<n, 1>>
    ELSE <<IF n < 0 THEN -1 ELSE 1, BigOfInt(Abs(n) \div 2^TrailingZeros(Abs(n))),
           TrailingZeros(Abs(n))>>

\* the float64 nearest to the root of m * 2^(2 * e)
RootOf(m, e) ==
    CHOOSE v \in {FloatRound(1, r, e, BigMul(r, r) # m) : r \in {BigRoot(m)}} : TRUE

\* the root of a.m * 2^a.e, whose significand is shifted by an even number of
\* bits to have 2 * (MantissaBits + 2) bits or one more
ExactRoot(a, need) ==
    CHOOSE v \in {RootOf(BigShiftLeft(a.m, shift), (a.e - shift) \div 2) :
                  shift \in {IF (a.e - need) % 2 = 0 THEN need ELSE need + 1}} : TRUE

\* the root of the finite number x > 0
FloatRoot(x) ==
    CHOOSE v \in {ExactRoot(a, 2 * (MantissaBits + 2) - BigBitLen(a.m)) :
                  a \in {Exact(x)}} : TRUE

\* the float64 a with its digits
Num(a) == IF IsRoot(a) THEN FloatRoot(<<a[3], a[4]>>) ELSE a

\* the operands a and b with their digits
Nums(a, b) == [i \in 1..2 |-> Num(IF i = 1 THEN a ELSE b)]

\* -a and |a| of a float64 with its digits
FNeg(a) == IF Len(a) = 3 THEN <<-a[1], a[2], a[3]>> ELSE <<-a[1], a[2]>>
FAbs(a) ==
    IF IsRoot(a) THEN a
    ELSE IF Len(a) = 3 THEN <<1, a[2], a[3]>> ELSE <<Abs(a[1]), a[2]>>

\* s * am + t * bm as sign and long natural
SignedSum(s, am, t, bm) ==
    IF s = t THEN [s |-> s, m |-> BigAdd(am, bm)]
    ELSE IF BigLess(am, bm) THEN [s |-> t, m |-> BigSub(bm, am)]
    ELSE [s |-> s, m |-> BigSub(am, bm)]

\* a + b of two numbers in sign, long natural and exponent, e the lower
\* exponent
ExactSum(a, b, e) ==
    CHOOSE r \in {FloatRound(d.s, d.m, e, FALSE) :
                  d \in {SignedSum(a.s, BigShiftLeft(a.m, a.e - e),
                                   b.s, BigShiftLeft(b.m, b.e - e))}} : TRUE

\* x + y of finite numbers
FloatSum(x, y) ==
    CHOOSE r \in {ExactSum(a, b, IF a.e < b.e THEN a.e ELSE b.e) :
                  a \in {Exact(x)}, b \in {Exact(y)}} : TRUE

\* x * y of finite numbers
FloatProd(x, y) ==
    CHOOSE r \in {FloatRound(a.s * b.s, BigMul(a.m, b.m), a.e + b.e, FALSE) :
                  a \in {Exact(x)}, b \in {Exact(y)}} : TRUE

\* a / b of two numbers in sign, long natural and exponent, b # 0: the
\* quotient of the significands has MantissaBits + 2 bits or one more
ExactQuot(a, b, shift) ==
    CHOOSE r \in {FloatRound(a.s * b.s, q.quot, a.e - b.e - shift, q.rem # <<>>) :
                  q \in {BigDivMod(BigShiftLeft(a.m, shift), b.m)}} : TRUE

\* x / y of finite numbers, x # 0 and y # 0
FloatQuot(x, y) ==
    CHOOSE r \in {ExactQuot(a, b, MantissaBits + 2 + BigBitLen(b.m) - BigBitLen(a.m)) :
                  a \in {Exact(x)}, b \in {Exact(y)}} : TRUE

\* is x < y for finite numbers in sign, long natural and exponent, e the
\* lower exponent
ExactLess(a, b, e) ==
    IF a.m = <<>> THEN b.m # <<>> /\ b.s > 0
    ELSE IF b.m = <<>> THEN a.s < 0
    ELSE IF a.s # b.s THEN a.s < b.s
    ELSE BigLess(BigShiftLeft(IF a.s > 0 THEN a.m ELSE b.m, (IF a.s > 0 THEN a.e ELSE b.e) - e),
                 BigShiftLeft(IF a.s > 0 THEN b.m ELSE a.m, (IF a.s > 0 THEN b.e ELSE a.e) - e))

Small(n, d) == Abs(n) < Base /\ d <= Base /\ 2^(BitLen(d) - 1) = d

\* n/d in lowest terms if that is a number of the first kind, else <<>>
SmallFraction(n, d) ==
    CHOOSE q \in {IF Small(n \div g, d \div g) THEN <<n \div g, d \div g>> ELSE <<>> :
                  g \in {GCD(Abs(n), d)}} : TRUE

\* The float64 operations +, *, /, < and math.Sqrt on numbers with their
\* digits.  An exact result that is a number of the first kind is the result.
FloatAdd(a, b) ==
    IF IsNaN(a) \/ IsNaN(b) THEN NaN
    ELSE IF IsInf(a) THEN (IF IsInf(b) /\ a # b THEN NaN ELSE a)
    ELSE IF IsInf(b) THEN b
    ELSE CHOOSE r \in {IF q # <<>> THEN q ELSE FloatSum(a, b) :
                       q \in {IF Len(a) = 2 /\ Len(b) = 2
                              THEN SmallFraction(a[1] * b[2] + b[1] * a[2], a[2] * b[2])
                              ELSE <<>>}} : TRUE

FloatMul(a, b) ==
    IF IsNaN(a) \/ IsNaN(b) THEN NaN
    ELSE IF IsInf(a) \/ IsInf(b)
    THEN (IF IsZero(a) \/ IsZero(b) THEN NaN ELSE <<Sign(a) * Sign(b), 0>>)
    ELSE CHOOSE r \in {IF q # <<>> THEN q ELSE FloatProd(a, b) :
                       q \in {IF Len(a) = 2 /\ Len(b) = 2
                              THEN SmallFraction(a[1] * b[1], a[2] * b[2])
                              ELSE <<>>}} : TRUE

FloatDiv(a, b) ==
    IF IsNaN(a) \/ IsNaN(b) THEN NaN
    ELSE IF IsInf(a) THEN (IF IsInf(b) THEN NaN
                           ELSE <<a[1] * (IF Sign(b) < 0 THEN -1 ELSE 1), 0>>)
    ELSE IF IsInf(b) THEN <<0, 1>>
    ELSE IF IsZero(b) THEN (IF IsZero(a) THEN NaN ELSE <<Sign(a), 0>>)
    ELSE IF IsZero(a) THEN <<0, 1>>
    ELSE CHOOSE r \in {IF q # <<>> THEN q ELSE FloatQuot(a, b) :
                       q \in {IF Len(a) = 2 /\ Len(b) = 2
                              THEN SmallFraction(a[1] * b[2] * Sign(b), a[2] * Abs(b[1]))
                              ELSE <<>>}} : TRUE

FloatLess(a, b) ==
    IF IsNaN(a) \/ IsNaN(b) THEN FALSE
    ELSE IF IsInf(a) \/ IsInf(b)
    THEN a # b /\ (a = NegInf \/ b = PosInf)
    ELSE IF Len(a) = 2 /\ Len(b) = 2 THEN a[1] * b[2] < b[1] * a[2]
    ELSE CHOOSE r \in {ExactLess(x, y, IF x.e < y.e THEN x.e ELSE y.e) :
                       x \in {Exact(a)}, y \in {Exact(b)}} : TRUE

\* a finite number of the first kind that is not positive, or whose square
\* is of the first kind too: a root is compared to it by the root's argument
SmallSquare(a) ==
    Len(a) = 2 /\ a[2] # 0 /\ (a[1] <= 0 \/ Small(a[1] * a[1], a[2] * a[2]))

FloatLessRoots(a, b) ==
    IF IsRoot(a) /\ IsRoot(b) THEN a[3] * b[4] < b[3] * a[4]
    ELSE IF IsRoot(a) /\ SmallSquare(b)
    THEN b[1] > 0 /\ a[3] * b[2] * b[2] < b[1] * b[1] * a[4]
    ELSE IF IsRoot(b) /\ SmallSquare(a)
    THEN a[1] <= 0 \/ a[1] * a[1] * b[4] < b[3] * a[2] * a[2]
    ELSE CHOOSE r \in {FloatLess(p[1], p[2]) : p \in {Nums(a, b)}} : TRUE

FAdd(a, b) == CHOOSE r \in {FloatAdd(p[1], p[2]) : p \in {Nums(a, b)}} : TRUE
FSub(a, b) == CHOOSE r \in {FloatAdd(p[1], FNeg(p[2])) : p \in {Nums(a, b)}} : TRUE
FMul(a, b) == CHOOSE r \in {FloatMul(p[1], p[2]) : p \in {Nums(a, b)}} : TRUE
FDiv(a, b) == CHOOSE r \in {FloatDiv(p[1], p[2]) : p \in {Nums(a, b)}} : TRUE
FLt(a, b) == CHOOSE r \in {FloatLessRoots(x, y) : x \in {a}, y \in {b}} : TRUE

\* float64(n) / float64(d) of the integers n and d
Rat(n, d) == FDiv(F(n), F(d))

\* the integer root of a perfect square n >= 0, else -1
IntRoot(n) ==
    CHOOSE v \in {IF r * r = n THEN r ELSE -1 : r \in {IntRootFrom(n, 0, DigitBits)}} : TRUE

FloatSqrt(q) ==
    IF IsNaN(q) \/ Sign(q) < 0 THEN NaN
    ELSE IF IsInf(q) \/ IsZero(q) THEN q
    ELSE IF Len(q) = 3 THEN FloatRoot(q)
    ELSE CHOOSE v \in {IF n >= 0 /\ d >= 0 THEN <<n, d>>
                       ELSE <<"float64", "sqrt", q[1], q[2]>> :
                       n \in {IntRoot(q[1])}, d \in {IntRoot(q[2])}} : TRUE

\* math.Sqrt
Sqrt(q) == CHOOSE r \in {FloatSqrt(x) : x \in {Num(q)}} : TRUE

\* a < b and a == b of two distances.  A kept root is the root of n/d, no
\* square, with n < Base and d <= Base: it is no number x of the first kind,
\* because |n/d - x * x| is 2^-39 of x * x or more and a float64 is within
\* 2^-53 of the root it rounds.
DistLt(a, b) == FLt(a, b)
DistEq(a, b) ==
    /\ ~IsNaN(a)
    /\ ~IsNaN(b)
    /\ IF IsRoot(a) = IsRoot(b) THEN a = b
       ELSE IF Len(a) = 2 \/ Len(b) = 2 THEN FALSE
       ELSE Num(IF IsRoot(a) THEN a ELSE b) = (IF IsRoot(a) THEN b ELSE a)

At(s, i) == s[i + 1]

RECURSIVE SumTo(_, _)
\* f[1] + ... + f[n], added left to right from 0 as in the summing loops
SumTo(f, n) == IF n = 0 THEN F(0) ELSE FAdd(SumTo(f, n - 1), f[n])

----
(* DataSet (dataset.go) *)

DataVectors(w) == [1..w -> {F(v) : v \in Vals}]

DataSetsOfWidth(w) == UNION {[1..n -> DataVectors(w)] : n \in 0..MaxLen}

DataSets == UNION {DataSetsOfWidth(w) : w \in Widths}

\* coordinate values that are no multiples of a power of two: float64 rounds
\* them, and the sums and differences computed from them
Decimals == {Rat(1, 5), Rat(9, 10)}

DecimalDataSets == UNION {[1..n -> [1..1 -> Decimals]] : n \in 1..MaxLen}

\* number of coordinates a data set holds
Coords(vectors) == IF Len(vectors) = 0 THEN 0 ELSE Len(vectors) * Len(vectors[1])

DataSetLen(vectors) == Len(vectors)

\* DataSet.Width that gives an empty set the width 0
DataSetWidthOrZero(vectors) ==
    IF DataSetLen(vectors) = 0
    THEN [width |-> 0, err |-> "nil"]
    ELSE [width |-> Len(vectors[1]), err |-> "nil"]

\* DataSet.Width: the length of the first vector; panics on an empty set
DataSetWidth(vectors) ==
    IF DataSetLen(vectors) = 0
    THEN [width |-> -1, err |-> "panic: data set contains no elements"]
    ELSE [width |-> Len(vectors[1]), err |-> "nil"]

\* DataSet.Add with the append done before the check of the width
DataSetAddAppendsFirst(vectors, vector) ==
    [vectors |-> Append(vectors, vector),
     err |-> IF DataSetLen(vectors) # 0 /\ DataSetWidth(vectors).width # Len(vector)
             THEN "panic: data set must contain vectors of the same length"
             ELSE "nil"]

\* DataSet.Add without the check of the width
DataSetAddUnchecked(vectors, vector) ==
    [vectors |-> Append(vectors, vector), err |-> "nil"]

\* DataSet.Add: panics when the data set holds vectors of another length,
\* appends the vector otherwise
DataSetAdd(vectors, vector) ==
    IF DataSetLen(vectors) # 0 /\ DataSetWidth(vectors).width # Len(vector)
    THEN [vectors |-> vectors,
          err |-> "panic: data set must contain vectors of the same length"]
    ELSE [vectors |-> Append(vectors, vector), err |-> "nil"]

\* DataSet.Shuffle: p is the permutation rand.Perm returns
DataSetShuffle(vectors, p) == [i \in 1..DataSetLen(vectors) |-> At(vectors, p[i])]

\* DataSet.Copy: the vectors are copied by value
DataSetCopy(vectors) == [i \in 1..Len(vectors) |-> [k \in 1..Len(vectors[i]) |-> vectors[i][k]]]

\* the less function of DataSet.Sort: the first differing coordinate decides
RECURSIVE VectorLessFrom(_, _, _, _)
VectorLessFrom(a, b, k, w) ==
    IF k >= w THEN FALSE
    ELSE IF At(a, k) # At(b, k) THEN FLt(At(a, k), At(b, k))
    ELSE VectorLessFrom(a, b, k + 1, w)

\* a less function that orders the vectors the other way round
VectorGreater(a, b, w) == VectorLessFrom(b, a, 0, w)

VectorLess(a, b, w) == VectorLessFrom(a, b, 0, w)

\* DataSet.Sort: sort.Slice with VectorLess.  Vectors that compare equal
\* hold equal values, so the result is the same whatever order sort.Slice
\* leaves them in.
RECURSIVE InsertSorted(_, _, _)
InsertSorted(sorted, v, w) ==
    IF sorted = <<>> THEN <<v>>
    ELSE IF VectorLess(v, Head(sorted), w) THEN <<v>> \o sorted
    ELSE <<Head(sorted)>> \o InsertSorted(Tail(sorted), v, w)

RECURSIVE SortFrom(_, _, _)
SortFrom(vectors, k, w) ==
    IF k > Len(vectors) THEN <<>>
    ELSE InsertSorted(SortFrom(vectors, k + 1, w), vectors[k], w)

DataSetSort(vectors) ==
    IF Len(vectors) < 2 THEN vectors
    ELSE SortFrom(vectors, 1, DataSetWidth(vectors).width)

\* float64(len) / float64(newLen) for len >= newLen >= 1
FloatQuotient(len, newLen) ==
    LET f == MantissaBits - BitLen(len \div newLen)
        n == BigShiftLeft(BigOfInt(len), f + 1)
    IN  [mant |-> BigRoundLastBit(BigTrim(BigDivSmall(n, newLen, 0)),
                                  BigModSmall(n, newLen, 0) # 0),
         frac |-> f]

\* int(float64(i) * step) for a step >= 1
FloatProductToInt(i, step) ==
    IF i = 0 THEN 0
    ELSE LET p == BigMulSmall(step.mant, i, 0)
             shift == BigBitLen(p) - MantissaBits
         IN  IF shift <= 0 THEN BigToInt(BigShiftRight(p, step.frac))
             ELSE BigToInt(BigShiftRight(
                      BigRoundLastBit(BigShiftRight(p, shift - 1), BigLowBits(p, shift - 1)),
                      step.frac - shift))

\* DataSet.Reduce, for newLen >= 0 (with newLen = 0 the step is +Inf and the
\* loop does not run)
DataSetReduce(vectors, newLen) ==
    IF DataSetLen(vectors) > newLen
    THEN LET step == FloatQuotient(DataSetLen(vectors), newLen)
         IN  [i \in 1..newLen |->
                LET left == FloatProductToInt(i - 1, step)
                    right == FloatProductToInt(i, step)
                IN  At(vectors, (left + right) \div 2)]
    ELSE vectors

----------------------------------------------------------------------------
(* Selectors (som.go) *)

\* rand.Perm(n): a permutation of 0..n-1
Perms(n) == {p \in [1..n -> 0..(n - 1)] : \A i, j \in 1..n : p[i] = p[j] => i = j}

NewSequentialSelector == [set |-> Nil, idx |-> 0]
NewRandSelector == [dataSet |-> Nil, perm |-> <<>>, idx |-> 0]

SequentialSelectorInit(sel, set) == [sel EXCEPT !.set = set]

\* The result of SequentialSelector.Next on heap h: the selector afterwards,
\* the index of the returned vector (-1 with an error) and the error.
SequentialSelectorNext(sel, h) ==
    IF sel.idx >= DataSetLen(h[sel.set])
    THEN [sel |-> sel, index |-> -1, pos |-> -1, err |-> "ErrNoDataLeft"]
    ELSE [sel |-> [sel EXCEPT !.idx = sel.idx + 1],
          index |-> sel.idx, pos |-> sel.idx, err |-> "nil"]

RandSelectorInit(sel, dataSet, p) == [sel EXCEPT !.dataSet = dataSet, !.perm = p]

\* RandSelector.Next without the sel.idx++ of som.go:333
RandSelectorNextNoAdvance(sel, h, p) ==
    LET s1 == IF sel.idx = Len(sel.perm)
              THEN [sel EXCEPT !.idx = 0, !.perm = p]
              ELSE sel
    IN  IF s1.idx >= Len(s1.perm) \/ At(s1.perm, s1.idx) >= DataSetLen(h[s1.dataSet])
        THEN [sel |-> s1, index |-> -1, pos |-> -1, err |-> "panic: index out of range"]
        ELSE [sel |-> s1, index |-> At(s1.perm, s1.idx), pos |-> s1.idx, err |-> "nil"]

\* RandSelector.Next; p is the permutation rand.Perm returns when the
\* current one is exhausted.  Indexing perm or Vectors out of range panics.
\* pos is the place in perm the returned index was read from.
RandSelectorNext(sel, h, p) ==
    LET s1 == IF sel.idx = Len(sel.perm)
              THEN [sel EXCEPT !.idx = 0, !.perm = p]
              ELSE sel
    IN  IF s1.idx >= Len(s1.perm)
        THEN [sel |-> s1, index |-> -1, pos |-> -1, err |-> "panic: index out of range"]
        ELSE IF At(s1.perm, s1.idx) >= DataSetLen(h[s1.dataSet])
        THEN [sel |-> s1, index |-> -1, pos |-> -1, err |-> "panic: index out of range"]
        ELSE [sel |-> [s1 EXCEPT !.idx = s1.idx + 1],
              index |-> At(s1.perm, s1.idx), pos |-> s1.idx, err |-> "nil"]

IsPanic(err) == err \notin {"nil", "ErrNoDataLeft"}

\* What Next hands back to its caller: the vector (a slice sharing the data
\* set's storage, identified by its index) and the error.
NextResult(r, h, set) ==
    [index |-> r.index,
     pos |-> r.pos,
     vector |-> IF r.err = "nil" THEN At(h[set], r.index) ELSE <<>>,
     err |-> r.err]

NoResult == [index |-> -1, pos |-> -1, vector |-> <<>>, err |-> "none"]

----------------------------------------------------------------------------
(* Input adapters (som.go) *)

NoOpAdapter == [kind |-> "NoOpAdapter"]

NewScalingDataAdapter(min, max) ==
    [kind |-> "ScalingDataAdapter",
     Min |-> min,
     MaxMinDiff |-> [i \in 1..Len(min) |-> FSub(max[i], min[i])]]

NoOpAdapterAdapt(vector) == [vector |-> vector, err |-> "nil"]

\* a ScalingDataAdapter that divides by max, not by max - min
ScalingDataAdapterAdaptByMax(adapter, vector) ==
    LET n == IF Len(vector) <= Len(adapter.Min) THEN Len(vector) ELSE Len(adapter.Min)
    IN  [vector |-> [i \in 1..Len(vector) |->
                        IF i <= n
                        THEN FDiv(FSub(vector[i], adapter.Min[i]),
                                  FAdd(adapter.MaxMinDiff[i], adapter.Min[i]))
                        ELSE vector[i]],
         err |-> IF Len(vector) > Len(adapter.Min)
                 THEN "panic: index out of range" ELSE "nil"]

\* ScalingDataAdapter.Adapt rewrites the vector it is given, coordinate by
\* coordinate, and panics at the first coordinate Min does not have.
ScalingDataAdapterAdapt(adapter, vector) ==
    LET n == IF Len(vector) <= Len(adapter.Min) THEN Len(vector) ELSE Len(adapter.Min)
    IN  [vector |-> [i \in 1..Len(vector) |->
                        IF i <= n
                        THEN FDiv(FSub(vector[i], adapter.Min[i]), adapter.MaxMinDiff[i])
                        ELSE vector[i]],
         err |-> IF Len(vector) > Len(adapter.Min)
                 THEN "panic: index out of range" ELSE "nil"]

\* a SOM that hands its input to the engine as it is, whatever its adapter
AdaptSkipped(adapter, vector) == NoOpAdapterAdapt(vector)

\* DataAdapter.Adapt: the vector after the call (the same storage for both
\* adapters) and the panic, if any
Adapt(adapter, vector) ==
    IF adapter.kind = "NoOpAdapter"
    THEN NoOpAdapterAdapt(vector)
    ELSE ScalingDataAdapterAdapt(adapter, vector)

----------------------------------------------------------------------------
(* Distance functions (som.go) *)

\* math.Pow(x, 2)
Pow2(x) == FMul(x, x)

EuclideanDistanceFuncApply(xVector, yVector) ==
    IF Len(xVector) > Len(yVector)
    THEN [value |-> F(0), err |-> "panic: index out of range"]
    ELSE [value |-> Sqrt(SumTo([i \in 1..Len(xVector) |-> Pow2(FSub(xVector[i], yVector[i]))],
                               Len(xVector))),
          err |-> "nil"]

ManhattanDistanceFuncApply(xVector, yVector) ==
    IF Len(xVector) > Len(yVector)
    THEN [value |-> F(0), err |-> "panic: index out of range"]
    ELSE [value |-> SumTo([i \in 1..Len(xVector) |-> FAbs(FSub(xVector[i], yVector[i]))],
                          Len(xVector)),
          err |-> "nil"]

DistanceApply(kind, xVector, yVector) ==
    IF kind = "EuclideanDistanceFunc"
    THEN EuclideanDistanceFuncApply(xVector, yVector)
    ELSE ManhattanDistanceFuncApply(xVector, yVector)

----------------------------------------------------------------------------
(* Restraint and influence functions (som.go) *)

NoRestraintFuncApply(currentIt, iterationsNumber) == F(1)

\* an influence of 1 on every neuron
EveryNeuronInfluencedFuncApply(bmu, currentIt, iterationsNumber, i, j) == F(1)

BMUOnlyInfluencedFuncApply(bmu, currentIt, iterationsNumber, i, j) ==
    IF bmu.X = i /\ bmu.Y = j THEN F(1) ELSE F(0)

\* SimpleRestraintFunc{A, B}.Apply: A / (B + t)
SimpleRestraintFuncApply(A, B, currentIt, iterationsNumber) ==
    FDiv(A, FAdd(B, F(currentIt)))

\* the distance on the grid from the BMU to the neuron at (x, y)
GridDistance(bmu, x, y) == Sqrt(FAdd(Pow2(F(bmu.X - x)), Pow2(F(bmu.Y - y))))

\* RadiusReducingConstantInfluenceFunc.Apply with a radius that is not reduced
RadiusConstantInfluenceFuncApply(radius, bmu, currentIt, iterationsNumber, x, y) ==
    IF FLt(radius, GridDistance(bmu, x, y)) THEN F(0) ELSE F(1)

\* RadiusReducingConstantInfluenceFunc{Radius}.Apply: 0 when d > qt, else 1,
\* with qt = Radius / (1 + t/T) and d the distance from the BMU to (x, y)
RadiusReducingConstantInfluenceFuncApply(radius, bmu, currentIt, iterationsNumber, x, y) ==
    LET t == F(currentIt)
        T == F(iterationsNumber)
        qt == FDiv(radius, FAdd(F(1), FDiv(t, T)))
        d == GridDistance(bmu, x, y)
    IN  IF FLt(qt, d) THEN F(0) ELSE F(1)

\* the parameters of the SimpleRestraintFunc and of the
\* RadiusReducingConstantInfluenceFunc a client configures
SimpleRestraintA == 1
SimpleRestraintB == 1
InfluenceRadius == 1

\* RestraintFunc.Apply of the function of that kind
RestraintApply(kind, currentIt, iterationsNumber) ==
    IF kind = "SimpleRestraintFunc"
    THEN SimpleRestraintFuncApply(F(SimpleRestraintA), F(SimpleRestraintB),
                                  currentIt, iterationsNumber)
    ELSE NoRestraintFuncApply(currentIt, iterationsNumber)

\* InfluenceFunc.Apply of the function of that kind
InfluenceApply(kind, bmu, currentIt, iterationsNumber, i, j) ==
    IF kind = "RadiusReducingConstantInfluenceFunc"
    THEN RadiusReducingConstantInfluenceFuncApply(F(InfluenceRadius), bmu, currentIt,
                                                  iterationsNumber, i, j)
    ELSE BMUOnlyInfluencedFuncApply(bmu, currentIt, iterationsNumber, i, j)

----------------------------------------------------------------------------
(* The grid of neurons (som.go) *)

\* New with the neuron at [i][j] told that it is at (j, i)
NewTransposed(X, Y) ==
    [i \in 0..(X - 1) |-> [j \in 0..(Y - 1) |->
        [Weights |-> <<>>, Distance |-> F(0), X |-> j, Y |-> i]]]

\* New(X, Y): Neurons[i][j] for 0 <= i < X, 0 <= j < Y
New(X, Y) ==
    [i \in 0..(X - 1) |-> [j \in 0..(Y - 1) |->
        [Weights |-> <<>>, Distance |-> F(0), X |-> i, Y |-> j]]]

LenX(ns) == Cardinality(DOMAIN ns)
LenY(ns) == Cardinality(DOMAIN ns[0])

\* the cells in the order the nested loops over i and j visit them
Cell(ns, k) == <<(k - 1) \div LenY(ns), (k - 1) % LenY(ns)>>
NumCells(ns) == LenX(ns) * LenY(ns)
CellNo(ns, i, j) == i * LenY(ns) + j + 1

WeightsOf(ns) == [i \in DOMAIN ns |-> [j \in DOMAIN ns[i] |-> ns[i][j].Weights]]

\* what Distance.Apply gives for the vector and the weights of each neuron
Distances(ns, distance, vector) ==
    [i \in DOMAIN ns |-> [j \in DOMAIN ns[i] |->
        DistanceApply(distance, vector, ns[i][j].Weights)]]

\* the loops of SOM.computeDistance with the result d[i][j] of Distance.Apply
\* for the neuron at [i][j]
ComputeDistanceLoops(ns, d) ==
    LET bad == {k \in 1..NumCells(ns) : d[Cell(ns, k)[1]][Cell(ns, k)[2]].err # "nil"}
        stop == IF bad = {} THEN NumCells(ns) + 1
                ELSE CHOOSE k \in bad : \A m \in bad : k <= m
    IN  [neurons |-> [i \in DOMAIN ns |-> [j \in DOMAIN ns[i] |->
                        IF CellNo(ns, i, j) < stop
                        THEN [ns[i][j] EXCEPT !.Distance = d[i][j].value]
                        ELSE ns[i][j]]],
         err |-> IF bad = {} THEN "nil" ELSE "panic: index out of range"]

\* SOM.computeDistance: stores the distance in every neuron, in loop order;
\* a panic in Distance.Apply leaves the later neurons as they were.
ComputeDistance(ns, distance, vector) ==
    CHOOSE r \in {ComputeDistanceLoops(ns, d) : d \in {Distances(ns, distance, vector)}} : TRUE

\* the first loop of SOM.findBMU from cell k on: the candidate kept, its
\* distance and candidatesCount
RECURSIVE FindBMUScan(_, _, _, _, _)
FindBMUScan(ns, k, bmu, minDistance, candidatesCount) ==
    IF k > NumCells(ns)
    THEN [bmu |-> bmu, minDistance |-> minDistance, candidatesCount |-> candidatesCount]
    ELSE LET c == Cell(ns, k)
             candidate == ns[c[1]][c[2]]
         IN  IF DistLt(candidate.Distance, minDistance)
             THEN FindBMUScan(ns, k + 1, c, candidate.Distance, 1)
             ELSE IF DistEq(minDistance, candidate.Distance)
             THEN FindBMUScan(ns, k + 1, bmu, minDistance, candidatesCount + 1)
             ELSE FindBMUScan(ns, k + 1, bmu, minDistance, candidatesCount)

FindBMUFirstCell(ns) == {<<0, 0>>}

\* SOM.findBMU without the draw among the candidates: the first of the
\* neurons of least distance is returned
FindBMUFirstCandidate(ns) == {FindBMUScan(ns, 1, <<0, 0>>, ns[0][0].Distance, 1).bmu}

\* SOM.findBMU: the cells it can return (rand.Intn picks among candidates)
FindBMU(ns) ==
    LET r == FindBMUScan(ns, 1, <<0, 0>>, ns[0][0].Distance, 1)
    IN  IF r.candidatesCount = 1
        THEN {r.bmu}
        ELSE {c \in {Cell(ns, k) : k \in 1..NumCells(ns)} :
                DistEq(r.minDistance, ns[c[1]][c[2]].Distance)}

\* The loops of SOM.fixWeights with the coefficient cof[i][j] for the neuron
\* at [i][j]: the neurons are visited row by row and their weights rewritten
\* coordinate by coordinate; input[k] panics at the first coordinate the
\* input does not have, after the neurons before that one were rewritten
\* whole and the first Len(input) weights of that one.
FixWeightsLoops(ns, cof, input) ==
    LET tooLong == {c \in UNION {{<<i, j>> : j \in DOMAIN ns[i]} : i \in DOMAIN ns} :
                      Len(input) < Len(ns[c[1]][c[2]].Weights)}
        Before(a, b) == a[1] < b[1] \/ (a[1] = b[1] /\ a[2] < b[2])
        stop == CHOOSE c \in tooLong : \A o \in tooLong : ~Before(o, c)
        Rewritten(i, j) ==
            IF tooLong = {} \/ Before(<<i, j>>, stop) THEN Len(ns[i][j].Weights)
            ELSE IF <<i, j>> = stop THEN Len(input)
            ELSE 0
    IN  [neurons |-> [i \in DOMAIN ns |-> [j \in DOMAIN ns[i] |->
             [ns[i][j] EXCEPT !.Weights =
                [k \in 1..Len(ns[i][j].Weights) |->
                    IF k <= Rewritten(i, j)
                    THEN FAdd(ns[i][j].Weights[k],
                              FMul(cof[i][j], FSub(input[k], ns[i][j].Weights[k])))
                    ELSE ns[i][j].Weights[k]]]]],
         err |-> IF tooLong = {} THEN "nil" ELSE "panic: index out of range"]

\* SOM.fixWeights with the coefficient taken from the influence alone
FixWeightsUnrestrained(ns, restraint, influence, t, T, bmu, input) ==
    LET cof == [i \in DOMAIN ns |-> [j \in DOMAIN ns[i] |->
                   InfluenceApply(influence, ns[bmu[1]][bmu[2]], t, T, i, j)]]
    IN  FixWeightsLoops(ns, cof, input)

\* SOM.fixWeights: every weight moves towards the input by the coefficient
\* Restraint.Apply(t, T) * Influence.Apply(bmu, t, T, i, j)
FixWeights(ns, restraint, influence, t, T, bmu, input) ==
    LET cof == [i \in DOMAIN ns |-> [j \in DOMAIN ns[i] |->
                   FMul(RestraintApply(restraint, t, T),
                        InfluenceApply(influence, ns[bmu[1]][bmu[2]], t, T, i, j))]]
    IN  FixWeightsLoops(ns, cof, input)

ComputeDistanceMatrixStoring(ns, distance, vector) ==
    CHOOSE r \in {[matrix |-> [i \in DOMAIN ns |-> [j \in DOMAIN ns[i] |->
                                  cd.neurons[i][j].Distance]],
                    neurons |-> cd.neurons,
                    err |-> cd.err] : cd \in {ComputeDistance(ns, distance, vector)}} : TRUE

\* SOM.ComputeDistanceMatrix after the adaptation: the matrix of distances
ComputeDistanceMatrixOf(ns, distance, vector) ==
    CHOOSE r \in {[matrix |-> [i \in DOMAIN ns |-> [j \in DOMAIN ns[i] |-> d[i][j].value]],
                    neurons |-> ns,
                    err |-> IF \E i \in DOMAIN ns : \E j \in DOMAIN ns[i] : d[i][j].err # "nil"
                            THEN "panic: index out of range" ELSE "nil"] :
                   d \in {Distances(ns, distance, vector)}} : TRUE

\* SOM.SeparateWeights with every matrix filled from the neuron at (0, 0)
SeparateWeightsOfFirstNeuron(ns) ==
    [matrices |-> [si \in 1..Len(ns[0][0].Weights) |->
                     [i \in DOMAIN ns |-> [j \in DOMAIN ns[i] |-> ns[0][0].Weights[si]]]],
     err |-> "nil"]

\* SOM.SeparateWeights: one matrix for each weight of the neuron at (0, 0);
\* reading a weight a neuron does not have panics
SeparateWeightsOf(ns) ==
    IF \E c \in (0..(LenX(ns) - 1)) \X (0..(LenY(ns) - 1)) :
         Len(ns[c[1]][c[2]].Weights) < Len(ns[0][0].Weights)
    THEN [matrices |-> <<>>, err |-> "panic: index out of range"]
    ELSE [matrices |-> [si \in 1..Len(ns[0][0].Weights) |->
                          [i \in DOMAIN ns |-> [j \in DOMAIN ns[i] |-> ns[i][j].Weights[si]]]],
          err |-> "nil"]

----------------------------------------------------------------------------
(* Neurons initializers (som.go) *)

\* the values rand.Float64 returns, in [0, 1), in the runs explored
RandFloats == {Rat(1, 2)}

ZeroValueWeightsInitializerInit(vectors, ns) ==
    LET w == DataSetWidth(vectors)
    IN  IF w.err # "nil"
        THEN [neurons |-> ns, err |-> w.err]
        ELSE [neurons |-> [i \in DOMAIN ns |-> [j \in DOMAIN ns[i] |->
                             [ns[i][j] EXCEPT !.Weights = [k \in 1..w.width |-> F(0)]]]],
              err |-> "nil"]

\* RandWeightsInitializer.Init; draw[c][k] is the value rand.Float64 returns
\* for weight k of the c-th neuron
RandWeightsInitializerInit(vectors, ns, draw) ==
    LET z == ZeroValueWeightsInitializerInit(vectors, ns)
    IN  IF z.err # "nil" THEN z
        ELSE [neurons |-> [i \in DOMAIN ns |-> [j \in DOMAIN ns[i] |->
                 [z.neurons[i][j] EXCEPT !.Weights =
                    [k \in 1..Len(z.neurons[i][j].Weights) |-> draw[CellNo(ns, i, j)][k]]]]],
              err |-> "nil"]

\* the loop of RandDataSetVectorsWeightsInitializer.Init from cell k on: sel
\* is its private RandSelector over the vectors, perms[m + 1] the m-th
\* permutation the selector regenerates
RECURSIVE RandDataSetAssign(_, _, _, _, _)
RandDataSetAssign(ns, vectors, sel, perms, k) ==
    IF k > NumCells(ns) THEN [neurons |-> ns, err |-> "nil"]
    ELSE LET p == perms[1 + ((k - 1) \div DataSetLen(vectors))]
             r == RandSelectorNext(sel, [d \in {"local"} |-> vectors], p)
             c == Cell(ns, k)
         IN  IF r.err # "nil" THEN [neurons |-> ns, err |-> r.err]
             ELSE RandDataSetAssign(
                    [ns EXCEPT ![c[1]][c[2]].Weights =
                        [m \in 1..Len(ns[c[1]][c[2]].Weights) |-> At(vectors, r.index)[m]]],
                    vectors, r.sel, perms, k + 1)

RandDataSetSourceUnreduced(vectors, ns) == vectors

\* the data set the initializer selects from: the one it was given, or a
\* sorted and reduced copy when the grid has fewer cells than it has vectors
RandDataSetSource(vectors, ns) ==
    IF NumCells(ns) < DataSetLen(vectors)
    THEN DataSetReduce(DataSetSort(DataSetCopy(vectors)), NumCells(ns))
    ELSE vectors

\* the indexes the initializer's selector returns, one for each cell from k on
RECURSIVE RandDataSetPicks(_, _, _, _, _)
RandDataSetPicks(ns, vectors, sel, perms, k) ==
    IF k > NumCells(ns) THEN <<>>
    ELSE LET p == perms[1 + ((k - 1) \div DataSetLen(vectors))]
             r == RandSelectorNext(sel, [d \in {"local"} |-> vectors], p)
         IN  <<r.index>> \o RandDataSetPicks(ns, vectors, r.sel, perms, k + 1)

RandDataSetVectorsLeftZero(vectors, ns, perms) ==
    ZeroValueWeightsInitializerInit(vectors, ns)

RandDataSetVectorsWeightsInitializerInit(vectors, ns, perms) ==
    LET z == ZeroValueWeightsInitializerInit(vectors, ns)
        src == RandDataSetSource(vectors, ns)
    IN  IF z.err # "nil" THEN z
        ELSE RandDataSetAssign(z.neurons, src,
                               RandSelectorInit(NewRandSelector, "local", perms[1]),
                               perms, 1)

\* what the random source can hand an initializer during one Init call
InitializerDraws(kind, vectors, ns) ==
    IF DataSetLen(vectors) = 0 \/ kind = "ZeroValueWeightsInitializer" THEN {<<>>}
    ELSE IF kind = "RandWeightsInitializer"
    THEN [1..NumCells(ns) -> [1..Len(vectors[1]) -> RandFloats]]
    ELSE LET src == RandDataSetSource(vectors, ns)
         IN  [1..(1 + ((NumCells(ns) - 1) \div DataSetLen(src))) -> Perms(DataSetLen(src))]

\* NeuronsInitializer.Init that leaves a grid that has weights as it is
InitializerInitOnce(kind, vectors, ns, draw) ==
    IF \E i \in DOMAIN ns : \E j \in DOMAIN ns[i] : Len(ns[i][j].Weights) > 0
    THEN [neurons |-> ns, err |-> DataSetWidth(vectors).err]
    ELSE IF kind = "ZeroValueWeightsInitializer"
    THEN ZeroValueWeightsInitializerInit(vectors, ns)
    ELSE IF kind = "RandWeightsInitializer"
    THEN RandWeightsInitializerInit(vectors, ns, draw)
    ELSE RandDataSetVectorsWeightsInitializerInit(vectors, ns, draw)

\* NeuronsInitializer.Init
InitializerInit(kind, vectors, ns, draw) ==
    IF kind = "ZeroValueWeightsInitializer" THEN ZeroValueWeightsInitializerInit(vectors, ns)
    ELSE IF kind = "RandWeightsInitializer" THEN RandWeightsInitializerInit(vectors, ns, draw)
    ELSE RandDataSetVectorsWeightsInitializerInit(vectors, ns, draw)

----------------------------------------------------------------------------
(* A client driving a selector directly *)

SeqInit(d) ==
    /\ panic = "none" /\ calls < MaxSelCalls
    /\ cfg.Selector = "SequentialSelector"
    /\ seqSel' = SequentialSelectorInit(seqSel, d)
    /\ hist' = <<>>
    /\ selOut' = NoResult
    /\ calls' = calls + 1
    /\ UNCHANGED <<ds, cfg, randSel, panic, engineVars>>

SeqNext ==
    /\ panic = "none" /\ calls < MaxSelCalls
    /\ cfg.Selector = "SequentialSelector"
    /\ seqSel.set # Nil
    /\ LET r == SequentialSelectorNext(seqSel, ds)
           out == NextResult(r, ds, seqSel.set)
       IN  /\ seqSel' = r.sel
           /\ selOut' = out
           /\ hist' = Append(hist, out)
    /\ calls' = calls + 1
    /\ UNCHANGED <<ds, cfg, randSel, panic, engineVars>>

RandInit(d) ==
    /\ panic = "none" /\ calls < MaxSelCalls
    /\ cfg.Selector = "RandSelector"
    /\ \E p \in Perms(DataSetLen(ds[d])) : randSel' = RandSelectorInit(randSel, d, p)
    /\ hist' = <<>>
    /\ selOut' = NoResult
    /\ calls' = calls + 1
    /\ UNCHANGED <<ds, cfg, seqSel, panic, engineVars>>

RandNext ==
    /\ panic = "none" /\ calls < MaxSelCalls
    /\ cfg.Selector = "RandSelector"
    /\ randSel.dataSet # Nil
    /\ \E p \in Perms(DataSetLen(ds[randSel.dataSet])) :
         LET r == RandSelectorNext(randSel, ds, p)
             out == NextResult(r, ds, randSel.dataSet)
         IN  /\ randSel' = r.sel
             /\ selOut' = out
             /\ hist' = Append(hist, out)
             /\ panic' = IF IsPanic(r.err) THEN r.err ELSE "none"
    /\ calls' = calls + 1
    /\ UNCHANGED <<ds, cfg, seqSel, engineVars>>

NoLearn == [set |-> Nil, T |-> 0, it |-> 0]
\* the record of a call: its name op, the data set it was called on, its
\* argument arg as the client gave it, what it returned (bmu, matrix, value),
\* the call before it, and whether it was given the slice of the call before
NoCall ==
    [op |-> "none", set |-> Nil, arg |-> <<>>, bmu |-> <<>>, matrix |-> <<>>,
     value |-> <<>>, prev |-> "none", same |-> FALSE]

DefaultCfg ==
    [Initializer |-> "ZeroValueWeightsInitializer",
     Selector |-> "SequentialSelector",
     Restraint |-> "NoRestraintFunc",
     Influence |-> "BMUOnlyInfluencedFunc",
     Distance |-> "EuclideanDistanceFunc",
     InDataAdapter |-> [kind |-> "NoOpAdapter"]]

InitSel ==
    /\ ds \in [DsIds -> DataSetsOfWidth(1)]
    /\ \E s \in {"SequentialSelector", "RandSelector"} :
         cfg = [DefaultCfg EXCEPT !.Selector = s]
    /\ seqSel = NewSequentialSelector
    /\ randSel = NewRandSelector
    /\ selOut = NoResult
    /\ hist = <<>>
    /\ calls = 0
    /\ panic = "none"
    /\ neurons = New(1, 1)
    /\ pc = "idle"
    /\ learn = NoLearn
    /\ monitor = <<>>
    /\ initW = WeightsOf(neurons)
    /\ dsAtCall = ds
    /\ vec = <<>>
    /\ queries = 0
    /\ ret = NoCall

NextSel ==
    \/ \E d \in DsIds : SeqInit(d)
    \/ SeqNext
    \/ \E d \in DsIds : RandInit(d)
    \/ RandNext

SpecSel == InitSel /\ [][NextSel]_vars

----------------------------------------------------------------------------
(* The SOM and its client *)

\* grids New is called for
Grids == {<<1, 1>>, <<1, 2>>, <<2, 1>>}

\* the min and max vectors NewScalingDataAdapter is called with
ScalingMin == [i \in Widths |-> F(0)]
ScalingMax == [i \in Widths |-> F(2)]

InDataAdapters == {NoOpAdapter, NewScalingDataAdapter(ScalingMin, ScalingMax)}

\* the vectors a client tests: the empty one and those of every width
TestVectors == UNION {DataVectors(w) : w \in {0} \cup Widths}

UsesRand == cfg.Selector = "RandSelector"

\* the permutations rand.Perm can return to the SOM's selector for data set d
SelectorPerms(d) == IF UsesRand THEN Perms(DataSetLen(ds[d])) ELSE {<<>>}

LearnLoopCondInclusive(it, iterationsNumber) == it <= iterationsNumber

\* the condition of the loop of SOM.Learn
LearnLoopCond(it, iterationsNumber) == it < iterationsNumber

\* SOM.Learn up to its loop: Initializer.Init, then Selector.Init
Learn(d, n) ==
    /\ panic = "none" /\ pc = "idle" /\ calls < MaxLearns
    /\ calls' = calls + 1
    /\ \E draw \in InitializerDraws(cfg.Initializer, ds[d], neurons) :
       \E p \in SelectorPerms(d) :
         LET r == InitializerInit(cfg.Initializer, ds[d], neurons, draw)
         IN  /\ neurons' = r.neurons
             /\ initW' = WeightsOf(r.neurons)
             /\ panic' = IF r.err = "nil" THEN "none" ELSE r.err
             /\ pc' = IF r.err = "nil" THEN "loop" ELSE "idle"
             /\ IF r.err = "nil" /\ UsesRand
                THEN randSel' = RandSelectorInit(randSel, d, p)
                ELSE UNCHANGED randSel
             /\ IF r.err = "nil" /\ ~UsesRand
                THEN seqSel' = SequentialSelectorInit(seqSel, d)
                ELSE UNCHANGED seqSel
    /\ learn' = [set |-> d, T |-> n, it |-> 0]
    /\ monitor' = <<>>
    /\ hist' = <<>>
    /\ selOut' = NoResult
    /\ dsAtCall' = ds
    /\ ret' = [NoCall EXCEPT !.op = "Learn"]
    /\ UNCHANGED <<ds, cfg, vec, queries>>

\* SOM.LearnEntire
LearnEntire(d) == Learn(d, DataSetLen(ds[d]))

\* Selector.Next of the SOM's selector; p is the permutation a RandSelector
\* regenerates
SelectorNext(p) ==
    IF UsesRand
    THEN RandSelectorNext(randSel, ds, p)
    ELSE SequentialSelectorNext(seqSel, ds)

\* the arguments of Monitor.ItCompleted with the loop counter from zero
MonitorArgsFromZero(it, iterationsNumber) == <<it, iterationsNumber>>

\* the arguments Learn calls Monitor.ItCompleted with after iteration it
MonitorArgs(it, iterationsNumber) == <<it + 1, iterationsNumber>>

\* one iteration of the loop of Learn with a vector from the selector:
\* Adapt, computeDistance, findBMU, fixWeights, Monitor.ItCompleted
LearnIterate ==
    /\ panic = "none" /\ pc = "loop" /\ LearnLoopCond(learn.it, learn.T)
    /\ \E p \in SelectorPerms(learn.set) :
       \E r \in {SelectorNext(p)} :
         /\ r.err = "nil"
         /\ IF UsesRand
            THEN randSel' = r.sel /\ UNCHANGED seqSel
            ELSE seqSel' = r.sel /\ UNCHANGED randSel
         /\ \E out \in {NextResult(r, ds, learn.set)} :
            \E a \in {Adapt(cfg.InDataAdapter, out.vector)} :
              /\ selOut' = out
              /\ hist' = Append(hist, out)
              \* the selector returned the data set's own vector: Adapt rewrites it
              /\ ds' = [ds EXCEPT ![learn.set][r.index + 1] = a.vector]
              /\ IF a.err # "nil"
                 THEN /\ panic' = a.err
                      /\ UNCHANGED <<neurons, monitor, learn>>
                 ELSE \E cd \in {ComputeDistance(neurons, cfg.Distance, a.vector)} :
                        IF cd.err # "nil"
                        THEN /\ panic' = cd.err
                             /\ neurons' = cd.neurons
                             /\ UNCHANGED <<monitor, learn>>
                        ELSE \E bmu \in FindBMU(cd.neurons) :
                             \E fw \in {FixWeights(cd.neurons, cfg.Restraint, cfg.Influence,
                                                   learn.it, learn.T, bmu, a.vector)} :
                               /\ neurons' = fw.neurons
                               /\ panic' = IF fw.err = "nil" THEN "none" ELSE fw.err
                               /\ IF fw.err = "nil"
                                  THEN /\ monitor' = Append(monitor,
                                                           MonitorArgs(learn.it, learn.T))
                                       /\ learn' = [learn EXCEPT !.it = learn.it + 1]
                                  ELSE UNCHANGED <<monitor, learn>>
    /\ UNCHANGED <<cfg, calls, pc, initW, dsAtCall, vec, queries, ret>>

\* the selector has no vector left: Learn breaks out of its loop and returns
LearnBreak ==
    /\ panic = "none" /\ pc = "loop" /\ LearnLoopCond(learn.it, learn.T)
    /\ ~UsesRand
    /\ LET r == SequentialSelectorNext(seqSel, ds)
       IN  /\ r.err = "ErrNoDataLeft"
           /\ seqSel' = r.sel
           /\ selOut' = NextResult(r, ds, learn.set)
           /\ hist' = Append(hist, NextResult(r, ds, learn.set))
    /\ pc' = "idle"
    /\ UNCHANGED <<ds, cfg, randSel, calls, panic, neurons, learn, monitor, initW,
                   dsAtCall, vec, queries, ret>>

\* the RandSelector indexes out of range: the program panics inside Learn
LearnSelectorPanic ==
    /\ panic = "none" /\ pc = "loop" /\ LearnLoopCond(learn.it, learn.T)
    /\ UsesRand
    /\ \E p \in SelectorPerms(learn.set) :
         LET r == RandSelectorNext(randSel, ds, p)
         IN  /\ IsPanic(r.err)
             /\ randSel' = r.sel
             /\ selOut' = NextResult(r, ds, learn.set)
             /\ hist' = Append(hist, NextResult(r, ds, learn.set))
             /\ panic' = r.err
    /\ UNCHANGED <<ds, cfg, seqSel, calls, pc, neurons, learn, monitor, initW,
                   dsAtCall, vec, queries, ret>>

\* the loop condition it < iterationsNumber fails: Learn returns
LearnReturn ==
    /\ panic = "none" /\ pc = "loop" /\ ~LearnLoopCond(learn.it, learn.T)
    /\ pc' = "idle"
    /\ UNCHANGED <<ds, cfg, seqSel, randSel, selOut, hist, calls, panic, neurons,
                   learn, monitor, initW, dsAtCall, vec, queries, ret>>

\* The vector a query is called with: a new vector v, or (same) the vector
\* the client handed to its previous query, as that call left it.
QueryVector(v, same) == IF same THEN vec ELSE v

QueryEnabled(v, same) ==
    /\ panic = "none" /\ pc = "idle" /\ queries < MaxQueries
    /\ same => (v = <<>> /\ ret.op \in {"Test", "ComputeDistanceMatrix"})

\* SOM.Test
Test(v, same) ==
    /\ QueryEnabled(v, same)
    /\ queries' = queries + 1
    /\ \E a \in {Adapt(cfg.InDataAdapter, QueryVector(v, same))} :
       \E call \in {[NoCall EXCEPT !.op = "Test", !.arg = QueryVector(v, same),
                                    !.prev = ret.op, !.same = same]} :
         /\ vec' = a.vector
         /\ IF a.err # "nil"
            THEN /\ panic' = a.err
                 /\ ret' = call
                 /\ UNCHANGED neurons
            ELSE \E cd \in {ComputeDistance(neurons, cfg.Distance, a.vector)} :
                   IF cd.err # "nil"
                   THEN /\ panic' = cd.err
                        /\ ret' = call
                        /\ neurons' = cd.neurons
                   ELSE /\ neurons' = cd.neurons
                        /\ \E bmu \in FindBMU(cd.neurons) : ret' = [call EXCEPT !.bmu = bmu]
                        /\ UNCHANGED panic
    /\ UNCHANGED <<ds, cfg, seqSel, randSel, selOut, hist, calls, pc, learn, monitor,
                   initW, dsAtCall>>

\* SOM.ComputeDistanceMatrix
ComputeDistanceMatrix(v, same) ==
    /\ QueryEnabled(v, same)
    /\ queries' = queries + 1
    /\ \E a \in {Adapt(cfg.InDataAdapter, QueryVector(v, same))} :
       \E m \in {ComputeDistanceMatrixOf(neurons, cfg.Distance, a.vector)} :
       \E err \in {IF a.err # "nil" THEN a.err ELSE m.err} :
         /\ vec' = a.vector
         /\ neurons' = m.neurons
         /\ panic' = IF err = "nil" THEN "none" ELSE err
         /\ ret' = [op |-> "ComputeDistanceMatrix",
                    set |-> Nil,
                    arg |-> QueryVector(v, same),
                    bmu |-> <<>>,
                    matrix |-> IF err = "nil" THEN m.matrix ELSE <<>>,
                    value |-> <<>>,
                    prev |-> ret.op,
                    same |-> same]
    /\ UNCHANGED <<ds, cfg, seqSel, randSel, selOut, hist, calls, pc, learn, monitor,
                   initW, dsAtCall>>

\* the components a client configures the SOM with
Cfgs(selectors, distances) ==
    [Initializer : {"ZeroValueWeightsInitializer", "RandWeightsInitializer",
                    "RandDataSetVectorsWeightsInitializer"},
     Selector : selectors,
     Restraint : {"NoRestraintFunc"},
     Influence : {"BMUOnlyInfluencedFunc"},
     Distance : distances,
     InDataAdapter : InDataAdapters]

\* the client has built a SOM with New and called nothing yet
InitSOM ==
    /\ \E g \in Grids : neurons = New(g[1], g[2])
    /\ seqSel = NewSequentialSelector
    /\ randSel = NewRandSelector
    /\ selOut = NoResult
    /\ hist = <<>>
    /\ calls = 0
    /\ panic = "none"
    /\ pc = "idle"
    /\ learn = NoLearn
    /\ monitor = <<>>
    /\ initW = WeightsOf(neurons)
    /\ dsAtCall = ds
    /\ vec = <<>>
    /\ queries = 0
    /\ ret = NoCall

\* A client that trains: it holds two data sets and calls Learn repeatedly.
Init ==
    /\ ds \in [DsIds -> DataSets]
    /\ Coords(ds["ds1"]) + Coords(ds["ds2"]) <= MaxHeap
    /\ cfg \in Cfgs({"SequentialSelector", "RandSelector"}, {"EuclideanDistanceFunc"})
    /\ InitSOM

Next ==
    \/ \E d \in DsIds : \E n \in (-1)..MaxIter : Learn(d, n)
    \/ \E d \in DsIds : LearnEntire(d)
    \/ LearnIterate
    \/ LearnBreak
    \/ LearnSelectorPanic
    \/ LearnReturn

Spec == Init /\ [][Next]_vars

\* A client that trains once on one data set and then queries the SOM.
InitUse ==
    /\ ds \in [DsIds -> DataSets]
    /\ Coords(ds["ds1"]) <= MaxHeap
    /\ ds["ds2"] = <<>>
    /\ cfg \in Cfgs({"SequentialSelector"},
                    {"EuclideanDistanceFunc", "ManhattanDistanceFunc"})
    /\ InitSOM

NextUse ==
    \/ \E d \in DsIds : \E n \in (-1)..MaxIter : calls = 0 /\ Learn(d, n)
    \/ LearnIterate
    \/ LearnBreak
    \/ LearnReturn
    \/ \E v \in TestVectors : \E same \in BOOLEAN : Test(v, same)
    \/ \E v \in TestVectors : \E same \in BOOLEAN : ComputeDistanceMatrix(v, same)

SpecUse == InitUse /\ [][NextUse]_vars

\* A client that trains on one data set, again and again, with the default
\* selector.
InitRetrain ==
    /\ ds \in [DsIds -> DataSets \cup DecimalDataSets]
    /\ Coords(ds["ds1"]) <= MaxHeap
    /\ ds["ds2"] = <<>>
    /\ cfg \in Cfgs({"SequentialSelector"}, {"EuclideanDistanceFunc"})
    /\ InitSOM

NextRetrain ==
    \/ \E d \in DsIds : \E n \in (-1)..MaxIter : Learn(d, n)
    \/ \E d \in DsIds : LearnEntire(d)
    \/ LearnIterate
    \/ LearnBreak
    \/ LearnReturn

SpecRetrain == InitRetrain /\ [][NextRetrain]_vars

\* A client that trains on one data set and then on another one.
InitTwice ==
    /\ ds \in [DsIds -> DataSets \ {<<>>}]
    /\ Coords(ds["ds1"]) + Coords(ds["ds2"]) <= MaxHeap
    /\ \E c \in Cfgs({"SequentialSelector"}, {"EuclideanDistanceFunc"}) :
         c.InDataAdapter = NoOpAdapter /\ cfg = c
    /\ InitSOM

NextTwice ==
    \/ \E n \in 0..MaxIter : calls = 0 /\ Learn("ds1", n)
    \/ \E n \in 0..MaxIter : calls = 1 /\ Learn("ds2", n)
    \/ LearnIterate
    \/ LearnBreak
    \/ LearnReturn

SpecTwice == InitTwice /\ [][NextTwice]_vars

\* the indexes of its source data set a RandDataSetVectorsWeightsInitializer
\* gave the cells, in the order of the cells
InitializerPicks(kind, vectors, ns, draw) ==
    IF kind = "RandDataSetVectorsWeightsInitializer" /\ DataSetLen(vectors) > 0
    THEN RandDataSetPicks(ns, RandDataSetSource(vectors, ns),
                          RandSelectorInit(NewRandSelector, "local", draw[1]), draw, 1)
    ELSE <<>>

\* the client calls Initializer.Init(set, som.Neurons) itself
NeuronsInitializerInit(d) ==
    /\ panic = "none" /\ pc = "idle" /\ calls < MaxLearns
    /\ calls' = calls + 1
    /\ \E draw \in InitializerDraws(cfg.Initializer, ds[d], neurons) :
         LET r == InitializerInit(cfg.Initializer, ds[d], neurons, draw)
         IN  /\ neurons' = r.neurons
             /\ initW' = WeightsOf(r.neurons)
             /\ panic' = IF r.err = "nil" THEN "none" ELSE r.err
             /\ ret' = [NoCall EXCEPT
                          !.op = "Init",
                          !.arg = InitializerPicks(cfg.Initializer, ds[d], neurons, draw)]
    /\ learn' = [set |-> d, T |-> 0, it |-> 0]
    /\ dsAtCall' = ds
    /\ UNCHANGED <<ds, cfg, seqSel, randSel, selOut, hist, pc, monitor, vec, queries>>

NextInitializer == \E d \in DsIds : NeuronsInitializerInit(d)

SpecInitializer == InitRetrain /\ [][NextInitializer]_vars

\* A client that trains once with LearnEntire and classifies new vectors.
NextTest ==
    \/ \E d \in DsIds : calls = 0 /\ LearnEntire(d)
    \/ LearnIterate
    \/ LearnReturn
    \/ \E v \in TestVectors : Test(v, FALSE)

SpecTest == InitUse /\ [][NextTest]_vars

\* A client that trains once with LearnEntire and asks for the distance
\* matrices of new vectors.
NextMatrix ==
    \/ \E d \in DsIds : calls = 0 /\ LearnEntire(d)
    \/ LearnIterate
    \/ LearnReturn
    \/ \E v \in TestVectors : ComputeDistanceMatrix(v, FALSE)

SpecMatrix == InitUse /\ [][NextMatrix]_vars

\* A client that trains once with LearnEntire and then asks one question,
\* with Test or with ComputeDistanceMatrix.
NextAdapted ==
    \/ \E d \in DsIds : calls = 0 /\ LearnEntire(d)
    \/ LearnIterate
    \/ LearnReturn
    \/ \E v \in TestVectors : queries = 0 /\ Test(v, FALSE)
    \/ \E v \in TestVectors : queries = 0 /\ ComputeDistanceMatrix(v, FALSE)

SpecAdapted == InitUse /\ [][NextAdapted]_vars

\* SOM.SeparateWeights
SeparateWeights ==
    /\ panic = "none" /\ pc = "idle"
    /\ LET r == SeparateWeightsOf(neurons)
       IN  /\ panic' = IF r.err = "nil" THEN "none" ELSE r.err
           /\ ret' = [NoCall EXCEPT !.op = "SeparateWeights", !.matrix = r.matrices]
    /\ UNCHANGED <<ds, cfg, seqSel, randSel, selOut, hist, calls, neurons, pc, learn,
                   monitor, initW, dsAtCall, vec, queries>>

\* A client that trains once with LearnEntire and asks for the weights, one
\* matrix for each coordinate.
NextSeparate ==
    \/ \E d \in DsIds : calls = 0 /\ LearnEntire(d)
    \/ LearnIterate
    \/ LearnReturn
    \/ SeparateWeights

SpecSeparate == InitUse /\ [][NextSeparate]_vars

\* A client that trains once and then calls the methods that read the grid,
\* in any order.
GridVectors == {<<>>} \cup DataVectors(2)

NextGrid ==
    \/ \E d \in DsIds : calls = 0 /\ LearnEntire(d)
    \/ LearnIterate
    \/ LearnReturn
    \/ \E v \in GridVectors : Test(v, FALSE)
    \/ \E v \in GridVectors : ComputeDistanceMatrix(v, FALSE)
    \/ SeparateWeights

\* its data sets hold whole numbers
InitGrid == InitRetrain /\ cfg.InDataAdapter = NoOpAdapter /\ ds \in [DsIds -> DataSets]

SpecGrid == InitGrid /\ [][NextGrid]_vars

\* the min and max vectors the ScalingDataAdapters of a client are built from
ScalingRanges ==
    {[min |-> <<F(0)>>, max |-> <<F(10)>>],
     [min |-> <<F(10)>>, max |-> <<F(20)>>],
     [min |-> <<F(-50)>>, max |-> <<F(50)>>],
     [min |-> <<F(0), F(0), F(0)>>, max |-> <<F(10), F(20), F(40)>>],
     [min |-> ScalingMin, max |-> ScalingMax]}

\* the vectors such a client adapts
AdaptVectors ==
    TestVectors \cup {<<F(5)>>, <<F(12)>>, <<F(10), F(10), F(10)>>}

\* the client calls InDataAdapter.Adapt on a vector of its own: on a new one,
\* or (same) on the one its previous call returned
AdapterAdapt(v, same) ==
    /\ panic = "none" /\ pc = "idle" /\ queries < MaxQueries
    /\ same => (v = <<>> /\ ret.op = "Adapt")
    /\ queries' = queries + 1
    /\ LET a == Adapt(cfg.InDataAdapter, QueryVector(v, same))
       IN  /\ vec' = a.vector
           /\ panic' = IF a.err = "nil" THEN "none" ELSE a.err
           /\ ret' = [NoCall EXCEPT
                        !.op = "Adapt",
                        !.arg = QueryVector(v, same),
                        !.value = IF a.err = "nil" THEN a.vector ELSE <<>>,
                        !.prev = ret.op,
                        !.same = same]
    /\ UNCHANGED <<ds, cfg, seqSel, randSel, selOut, hist, calls, neurons, pc, learn,
                   monitor, initW, dsAtCall>>

\* A client that builds a ScalingDataAdapter and adapts vectors with it.
InitAdapter ==
    /\ ds = [d \in DsIds |-> <<>>]
    /\ \E r \in ScalingRanges :
         cfg = [DefaultCfg EXCEPT !.InDataAdapter = NewScalingDataAdapter(r.min, r.max)]
    /\ InitSOM
    /\ neurons = New(1, 1)

NextAdapter == \E v \in AdaptVectors : \E same \in BOOLEAN : AdapterAdapt(v, same)

SpecAdapter == InitAdapter /\ [][NextAdapter]_vars

\* A caller of RadiusReducingConstantInfluenceFunc.Apply: for a radius, a
\* BMU, a candidate and an iterations number it asks the influence at
\* currentIt = 0, 1, 2, ...; hist collects the answers.
\* the largest iterations number and radius the influence is asked with
MaxInfluenceIter == 6

InfluenceRadii == {Rat(r, 2) : r \in 0..(2 * MaxInfluenceIter)}
InfluenceGrid == New((MaxInfluenceIter + 2) \div 2, 2)

InfluenceApplyCall ==
    /\ panic = "none"
    /\ ret.op = "Apply"
    /\ Len(hist) <= ret.arg.itNum
    /\ LET a == ret.arg
           value == RadiusReducingConstantInfluenceFuncApply(
                        a.radius, neurons[a.bmu[1]][a.bmu[2]], Len(hist), a.itNum, a.x, a.y)
       IN  /\ hist' = Append(hist, value)
           /\ ret' = [ret EXCEPT !.value = value]
    /\ queries' = queries + 1
    /\ UNCHANGED <<ds, cfg, seqSel, randSel, selOut, calls, panic, neurons, pc, learn,
                   monitor, initW, dsAtCall, vec>>

InitInfluence ==
    /\ ds = [d \in DsIds |-> <<>>]
    /\ cfg = [DefaultCfg EXCEPT !.Influence = "RadiusReducingConstantInfluenceFunc"]
    /\ neurons = InfluenceGrid
    /\ seqSel = NewSequentialSelector
    /\ randSel = NewRandSelector
    /\ selOut = NoResult
    /\ hist = <<>>
    /\ calls = 0
    /\ panic = "none"
    /\ pc = "idle"
    /\ learn = NoLearn
    /\ monitor = <<>>
    /\ initW = WeightsOf(neurons)
    /\ dsAtCall = ds
    /\ vec = <<>>
    /\ queries = 0
    /\ \E radius \in InfluenceRadii : \E itNum \in 1..MaxInfluenceIter :
       \E b \in {Cell(InfluenceGrid, k) : k \in 1..NumCells(InfluenceGrid)} :
       \E c \in {Cell(InfluenceGrid, k) : k \in 1..NumCells(InfluenceGrid)} :
         ret = [NoCall EXCEPT !.op = "Apply",
                              !.arg = [radius |-> radius, bmu |-> b, itNum |-> itNum,
                                       x |-> c[1], y |-> c[2]]]

NextInfluence == InfluenceApplyCall

SpecInfluence == InitInfluence /\ [][NextInfluence]_vars

\* the largest Distance a neuron is given in SpecBMU
MaxDistance == 2

\* grids of up to four neurons
BMUGrids == Grids \cup {<<2, 2>>}

\* SOM.findBMU on the Distance fields as they are
FindBMUCall ==
    /\ panic = "none" /\ pc = "idle"
    /\ \E bmu \in FindBMU(neurons) : ret' = [NoCall EXCEPT !.op = "findBMU", !.bmu = bmu]
    /\ UNCHANGED <<ds, cfg, seqSel, randSel, selOut, hist, calls, panic, neurons, pc,
                   learn, monitor, initW, dsAtCall, vec, queries>>

\* A SOM whose neurons hold any Distance values searches its BMU.
InitBMU ==
    /\ ds = [d \in DsIds |-> <<>>]
    /\ cfg = DefaultCfg
    /\ \E g \in BMUGrids :
       \E dist \in [(0..(g[1] - 1)) \X (0..(g[2] - 1)) -> 0..MaxDistance] :
         neurons = [i \in 0..(g[1] - 1) |-> [j \in 0..(g[2] - 1) |->
                      [New(g[1], g[2])[i][j] EXCEPT !.Distance = F(dist[<<i, j>>])]]]
    /\ seqSel = NewSequentialSelector
    /\ randSel = NewRandSelector
    /\ selOut = NoResult
    /\ hist = <<>>
    /\ calls = 0
    /\ panic = "none"
    /\ pc = "idle"
    /\ learn = NoLearn
    /\ monitor = <<>>
    /\ initW = WeightsOf(neurons)
    /\ dsAtCall = ds
    /\ vec = <<>>
    /\ queries = 0
    /\ ret = NoCall

NextBMU == FindBMUCall

SpecBMU == InitBMU /\ [][NextBMU]_vars

\* A client that sets the restraint and the influence functions and trains
\* once.
InitUpdate ==
    /\ ds \in [DsIds -> DataSets \cup DecimalDataSets]
    /\ Coords(ds["ds1"]) <= MaxHeap
    /\ ds["ds2"] = <<>>
    /\ \E c \in Cfgs({"SequentialSelector"}, {"EuclideanDistanceFunc"}) :
       \E r \in {"NoRestraintFunc", "SimpleRestraintFunc"} :
       \E i \in {"BMUOnlyInfluencedFunc", "RadiusReducingConstantInfluenceFunc"} :
         /\ c.InDataAdapter = NoOpAdapter
         /\ cfg = [c EXCEPT !.Restraint = r, !.Influence = i]
    /\ InitSOM

NextUpdate ==
    \/ \E d \in DsIds : \E n \in (-1)..MaxIter : calls = 0 /\ Learn(d, n)
    \/ LearnIterate
    \/ LearnBreak
    \/ LearnReturn

SpecUpdate == InitUpdate /\ [][NextUpdate]_vars

----------------------------------------------------------------------------
(* Clients of DataSet (dataset.go) *)

\* the longest data set that is reduced
MaxReduceLen == 15

\* the lengths Reduce is asked for
ReduceLens == (-1)..MaxReduceLen

\* the data set of the vectors <<0>>, <<1>>, ..., <<n - 1>>
Iota(n) == [i \in 1..n |-> <<F(i - 1)>>]

\* a call of a method of data set d has returned or panicked
DataSetCall(d, op, arg, vectors, err) ==
    /\ panic = "none" /\ pc = "idle"
    /\ ds' = [ds EXCEPT ![d] = vectors]
    /\ panic' = IF err = "nil" THEN "none" ELSE err
    /\ ret' = [NoCall EXCEPT !.op = op, !.set = d, !.arg = arg]
    /\ dsAtCall' = ds
    /\ UNCHANGED <<cfg, seqSel, randSel, selOut, hist, calls, neurons, pc, learn,
                   monitor, initW, vec, queries>>

\* DataSet.Reduce: make panics when it is asked for a negative length
Reduce(d, newLen) ==
    IF DataSetLen(ds[d]) > newLen /\ newLen < 0
    THEN DataSetCall(d, "Reduce", <<newLen>>, ds[d],
                     "panic: makeslice: len out of range")
    ELSE DataSetCall(d, "Reduce", <<newLen>>, DataSetReduce(ds[d], newLen), "nil")

\* DataSet.Add, for the calls that leave at most MaxLen vectors
Add(d, vector) ==
    LET r == DataSetAdd(ds[d], vector)
    IN  /\ DataSetLen(r.vectors) <= MaxLen
        /\ DataSetCall(d, "Add", vector, r.vectors, r.err)

\* DataSet.AddRaw: Add of the vector made of the values
AddRaw(d, values) ==
    LET r == DataSetAdd(ds[d], values)
    IN  /\ DataSetLen(r.vectors) <= MaxLen
        /\ DataSetCall(d, "AddRaw", values, r.vectors, r.err)

\* DataSet.Shuffle
Shuffle(d, p) == DataSetCall(d, "Shuffle", <<>>, DataSetShuffle(ds[d], p), "nil")

\* DataSet.Sort
Sort(d) == DataSetCall(d, "Sort", <<>>, DataSetSort(ds[d]), "nil")

\* e = d.Copy(): the client keeps the data set returned as e
Copy(d, e) ==
    /\ panic = "none" /\ pc = "idle"
    /\ ds' = [ds EXCEPT ![e] = DataSetCopy(ds[d])]
    /\ ret' = [NoCall EXCEPT !.op = "Copy", !.set = d, !.arg = <<e>>]
    /\ dsAtCall' = ds
    /\ UNCHANGED <<cfg, seqSel, randSel, selOut, hist, calls, panic, neurons, pc, learn,
                   monitor, initW, vec, queries>>

\* A client that creates data sets empty and fills, copies, shuffles, sorts
\* and reduces them.
InitData ==
    /\ ds = [d \in DsIds |-> <<>>]
    /\ cfg = DefaultCfg
    /\ InitSOM
    /\ neurons = New(1, 1)

NextData ==
    \/ \E d \in DsIds : \E v \in TestVectors : Add(d, v)
    \/ \E d \in DsIds : \E v \in TestVectors : AddRaw(d, v)
    \/ \E d \in DsIds : \E p \in Perms(DataSetLen(ds[d])) : Shuffle(d, p)
    \/ \E d, e \in DsIds : d # e /\ Copy(d, e)
    \/ \E d \in DsIds : Sort(d)
    \/ \E d \in DsIds : \E newLen \in (-1)..MaxLen : Reduce(d, newLen)

SpecData == InitData /\ [][NextData]_vars

\* A client that reduces a data set of distinct vectors, again and again.
InitReduce ==
    /\ \E n \in 0..MaxReduceLen : ds = [d \in DsIds |-> IF d = "ds1" THEN Iota(n) ELSE <<>>]
    /\ cfg = DefaultCfg
    /\ InitSOM
    /\ neurons = New(1, 1)

NextReduce == \E newLen \in ReduceLens : Reduce("ds1", newLen)

SpecReduce == InitReduce /\ [][NextReduce]_vars

----------------------------------------------------------------------------
(* Claims about the selectors, checked under SpecSel *)

SeqBound == cfg.Selector = "SequentialSelector" /\ seqSel.set # Nil
RandBound == cfg.Selector = "RandSelector" /\ randSel.dataSet # Nil

\* the indexes returned by the Next calls k+1 .. k+n since the last Init
Returned(k, n) == {hist[i].index : i \in (k + 1)..(k + n)}
AllSucceeded(k, n) == \A i \in (k + 1)..(k + n) : hist[i].err = "nil"

\* C4: after every Init of a SequentialSelector against ds (the first one or
\* a later one), the k-th Next returns ds.Vectors[k-1] for k = 1..len(ds)
\* and every later Next returns ErrNoDataLeft.
C4_SequentialRestartsAtEveryInit ==
    SeqBound =>
        \A k \in 1..Len(hist) :
            IF k <= DataSetLen(ds[seqSel.set])
            THEN /\ hist[k].err = "nil"
                 /\ hist[k].index = k - 1
                 /\ hist[k].vector = At(ds[seqSel.set], k - 1)
            ELSE hist[k].err = "ErrNoDataLeft"

\* C6: after Init of a RandSelector against a data set of size N >= 1 the
\* first N Next calls return every vector exactly once: they all succeed,
\* no index comes twice, and after N calls every index has come.
C6_FirstNCallsArePermutation ==
    RandBound =>
        LET N == DataSetLen(ds[randSel.dataSet])
            m == IF Len(hist) < N THEN Len(hist) ELSE N
        IN  N >= 1 =>
              /\ AllSucceeded(0, m)
              /\ Cardinality(Returned(0, m)) = m
              /\ Returned(0, m) \subseteq 0..(N - 1)

\* C7 as stated: every run of N consecutive Next calls, wherever it starts,
\* returns each element of the data set exactly once.
C7_AnyRunOfNIsPermutation ==
    RandBound =>
        LET N == DataSetLen(ds[randSel.dataSet])
        IN  \A k \in 0..Len(hist) :
              (N >= 1 /\ k + N <= Len(hist)) =>
                  AllSucceeded(k, N) /\ Returned(k, N) = 0..(N - 1)

\* C7 amended: every run of N consecutive Next calls that starts at a
\* permutation boundary (its first call reads perm[0]) returns each element
\* of the data set exactly once.
C7_RunFromPermBoundaryIsPermutation ==
    RandBound =>
        LET N == DataSetLen(ds[randSel.dataSet])
        IN  \A k \in 0..Len(hist) :
              (N >= 1 /\ k + N <= Len(hist) /\ hist[k + 1].pos = 0) =>
                  AllSucceeded(k, N) /\ Returned(k, N) = 0..(N - 1)

\* a complete run of N >= 2 calls over a regenerated permutation
C7_Witness ==
    /\ RandBound
    /\ LET N == DataSetLen(ds[randSel.dataSet])
       IN  /\ N >= 2
           /\ \E k \in 1..Len(hist) :
                 /\ k + N <= Len(hist)
                 /\ hist[k + 1].pos = 0
                 /\ Returned(k, N) = 0..(N - 1)

\* C8: RandSelector.Next never fails: whatever Init and Next calls came
\* before, a Next call on a selector bound to a non-empty data set returns a
\* vector of that data set with a nil error, and nothing panics.
C8_RandNextNeverFails ==
    RandBound =>
        LET N == DataSetLen(ds[randSel.dataSet])
        IN  N >= 1 =>
              /\ panic = "none"
              /\ \A i \in 1..Len(hist) :
                    hist[i].err = "nil" /\ hist[i].index \in 0..(N - 1)

----------------------------------------------------------------------------
(* Claims about training, checked under Spec and SpecRetrain *)

Cells == {Cell(neurons, k) : k \in 1..NumCells(neurons)}

\* a call of Learn trained on a data set has returned
LearnReturned == calls > 0 /\ pc = "idle" /\ panic = "none" /\ learn.set # Nil

Min(a, b) == IF a < b THEN a ELSE b

\* C1: after Learn(ds, n) with n <= 0 on a non-empty data set of width w has
\* returned, every neuron's weights have length w and are the weights the
\* initializer gave; no vector was selected and the monitor was not called.
C1_NoIterationLearnKeepsInitializerWeights ==
    (LearnReturned /\ learn.T <= 0 /\ DataSetLen(dsAtCall[learn.set]) >= 1) =>
        /\ WeightsOf(neurons) = initW
        /\ \A c \in Cells :
             Len(neurons[c[1]][c[2]].Weights) = Len(dsAtCall[learn.set][1])
        /\ monitor = <<>>
        /\ hist = <<>>
        /\ learn.it = 0

\* a second Learn call, with n <= 0, returned after a first one that trained
\* the neurons: the weights are those of the second initialization
C1_Witness ==
    /\ LearnReturned /\ calls = 2 /\ learn.T <= 0
    /\ DataSetLen(dsAtCall[learn.set]) >= 1
    /\ NumCells(neurons) = 2
    /\ cfg.Initializer = "RandDataSetVectorsWeightsInitializer"
    /\ \E c \in Cells : \E k \in 1..Len(neurons[c[1]][c[2]].Weights) :
         neurons[c[1]][c[2]].Weights[k] # F(0)

\* C3: after Learn(ds, n) has returned, ds holds the vectors it held when
\* Learn was called, in the same order and with the same values.
C3_LearnLeavesDataSetUnchanged ==
    LearnReturned => ds[learn.set] = dsAtCall[learn.set]

\* C5: every call Learn(ds, n), n >= 0, of an engine with the sequential
\* selector completes exactly min(n, len(ds)) iterations, over the vectors
\* of ds in stored order, and the monitor is called once for each.
C5_SequentialLearnCompletesMinIterations ==
    (LearnReturned /\ cfg.Selector = "SequentialSelector" /\ learn.T >= 0) =>
        LET done == Min(learn.T, DataSetLen(dsAtCall[learn.set]))
        IN  /\ learn.it = done
            /\ Len(monitor) = done
            /\ \A k \in 1..done : hist[k].err = "nil" /\ hist[k].index = k - 1

----------------------------------------------------------------------------
(* Claims about the queries, checked under SpecUse, SpecTest and SpecMatrix *)

\* this step is a call of the query op
Called(op) == queries' = queries + 1 /\ ret'.op = op

\* Distance.Apply(vector, weights of neuron (i, j)) for the neurons ns
DistanceTo(ns, vector, c) ==
    DistanceApply(cfg.Distance, vector, ns[c[1]][c[2]].Weights).value

\* C2: when Test(v) is followed immediately by ComputeDistanceMatrix(v) with
\* the same v of the grid's width, the matrix returned holds in cell (x, y)
\* the Distance field of neuron (x, y).
C2_MatrixEqualsDistanceFieldsAfterTest ==
    (/\ ret.op = "ComputeDistanceMatrix" /\ ret.prev = "Test" /\ ret.same
     /\ panic = "none" /\ calls = 1
     /\ Len(vec) = Len(neurons[0][0].Weights)) =>
        \A c \in Cells : ret.matrix[c[1]][c[2]] = neurons[c[1]][c[2]].Distance

\* C9: a call of ComputeDistanceMatrix(v) leaves every neuron as it was,
\* and the matrix it returns holds in cell (x, y) the value of
\* Distance.Apply(adapt(v), weights of neuron (x, y)).
C9_ComputeDistanceMatrixIsPure ==
    [][Called("ComputeDistanceMatrix") =>
         /\ neurons' = neurons
         /\ panic' = "none" =>
              \A c \in Cells : ret'.matrix[c[1]][c[2]] = DistanceTo(neurons, vec', c)]_vars

\* ComputeDistanceMatrix returned a matrix with a non-zero cell for a scaled
\* vector while the Distance fields hold other values
C9_Witness ==
    /\ ret.op = "ComputeDistanceMatrix" /\ panic = "none" /\ calls = 1
    /\ cfg.InDataAdapter.kind = "ScalingDataAdapter"
    /\ NumCells(neurons) = 2 /\ Len(vec) = 2
    /\ \E c \in Cells :
         /\ ret.matrix[c[1]][c[2]] # F(0)
         /\ ret.matrix[c[1]][c[2]] # neurons[c[1]][c[2]].Distance

\* C10: a call of Test(v) leaves the weights and the coordinates of every
\* neuron as they were; when it returns, every neuron's Distance is the
\* distance from the adapted v to its weights, and the neuron returned is
\* one of the grid whose Distance no other neuron's Distance is below.
C10_TestUpdatesDistanceOnly ==
    [][Called("Test") =>
         /\ DOMAIN neurons' = DOMAIN neurons
         /\ \A c \in Cells :
              /\ neurons'[c[1]][c[2]].Weights = neurons[c[1]][c[2]].Weights
              /\ neurons'[c[1]][c[2]].X = c[1]
              /\ neurons'[c[1]][c[2]].Y = c[2]
         /\ panic' = "none" =>
              /\ \A c \in Cells : neurons'[c[1]][c[2]].Distance = DistanceTo(neurons, vec', c)
              /\ ret'.bmu \in Cells
              /\ \A c \in Cells :
                   ~DistLt(neurons'[c[1]][c[2]].Distance,
                           neurons'[ret'.bmu[1]][ret'.bmu[2]].Distance)]_vars

\* Test returned a neuron other than the first one, strictly closer than
\* the first, after overwriting Distance fields left by the training
C10_Witness ==
    /\ ret.op = "Test" /\ panic = "none" /\ calls = 1
    /\ NumCells(neurons) = 2 /\ Len(vec) >= 1
    /\ ret.bmu # <<0, 0>>
    /\ DistLt(neurons[ret.bmu[1]][ret.bmu[2]].Distance, neurons[0][0].Distance)

\* the width of the neurons' weights
WeightsWidth == Len(neurons[0][0].Weights)

\* the last call of the client was a query
Queried == ret.op \in {"Test", "ComputeDistanceMatrix"}

\* C11: on an engine whose weights have width w, Test(v) and
\* ComputeDistanceMatrix(v) with a vector whose length is not w fail; no
\* distance is computed over a prefix.
C11_WrongWidthVectorFails ==
    (Queried /\ calls = 1 /\ WeightsWidth >= 1 /\ Len(vec) # WeightsWidth) =>
        panic # "none"

\* C12: on an engine New created and Learn never initialized, Test(v) and
\* ComputeDistanceMatrix(v) return for every v, also a non-empty one, and
\* the distances they produce are zero.
C12_FreshEngineQueriesGiveZero ==
    (Queried /\ calls = 0) =>
        /\ panic = "none"
        /\ ret.op = "Test" => \A c \in Cells : neurons[c[1]][c[2]].Distance = F(0)
        /\ ret.op = "ComputeDistanceMatrix" =>
             \A c \in Cells : ret.matrix[c[1]][c[2]] = F(0)

----------------------------------------------------------------------------
(* Claims about the initializers, checked under SpecInitializer *)

\* a RandDataSetVectorsWeightsInitializer has initialized the neurons from
\* the non-empty data set Original
RandDataSetInitialized ==
    /\ ret.op = "Init" /\ panic = "none"
    /\ cfg.Initializer = "RandDataSetVectorsWeightsInitializer"
    /\ DataSetLen(dsAtCall[learn.set]) >= 1

Original == dsAtCall[learn.set]

\* C13: after RandDataSetVectorsWeightsInitializer.Init(ds, grid) on a
\* non-empty ds, whatever the size of the grid, every neuron's weights are
\* equal, coordinate for coordinate, to a vector of the original ds.
C13_WeightsAreDataSetVectors ==
    RandDataSetInitialized =>
        \A c \in Cells : \E i \in 1..DataSetLen(Original) :
            neurons[c[1]][c[2]].Weights = Original[i]

\* a grid of one cell got the vector Sort and Reduce keep of two different ones
C13_Witness ==
    /\ RandDataSetInitialized /\ ds = dsAtCall
    /\ NumCells(neurons) = 1 /\ DataSetLen(Original) = 2
    /\ Original[1] # Original[2]
    /\ neurons[0][0].Weights = <<F(1)>>

\* C14: when the grid has no more cells than ds has vectors, no two neurons
\* get the same position of the source data set, and the weights of each
\* are the vector at its position; when it has fewer, the source is ds
\* sorted and reduced to the number of cells, and every position is used.
C14_VectorsAssignedWithoutRepetition ==
    (RandDataSetInitialized /\ NumCells(neurons) <= DataSetLen(Original)) =>
        LET n == NumCells(neurons)
            src == IF n < DataSetLen(Original)
                   THEN DataSetReduce(DataSetSort(Original), n)
                   ELSE Original
            picks == ret.arg
        IN  /\ Len(picks) = n
            /\ \A k \in 1..n : picks[k] \in 0..(DataSetLen(src) - 1)
            /\ \A k, m \in 1..n : picks[k] = picks[m] => k = m
            /\ \A k \in 1..n :
                 neurons[Cell(neurons, k)[1]][Cell(neurons, k)[2]].Weights
                    = At(src, picks[k])
            /\ DataSetLen(src) = n
            /\ {picks[k] : k \in 1..n} = 0..(n - 1)

\* two cells got the two vectors of a data set, the second one first
C14_Witness ==
    /\ RandDataSetInitialized
    /\ NumCells(neurons) = 2 /\ DataSetLen(Original) = 2
    /\ Original[1] # Original[2]
    /\ ret.arg = <<1, 0>>
    /\ neurons[0][0].Weights = Original[2]

\* C16: SeparateWeights returns one matrix for each weight coordinate, each
\* of the shape of the grid, whose cell [k][x][y] is the k-th weight of the
\* neuron at (x, y), and it leaves the weights, the Distance and the
\* coordinates of every neuron as they were.
C16_SeparateWeightsTransposesWeights ==
    [][(ret'.op = "SeparateWeights" /\ panic' = "none") =>
         /\ neurons' = neurons
         /\ Len(ret'.matrix) = WeightsWidth
         /\ \A k \in 1..WeightsWidth :
              /\ DOMAIN ret'.matrix[k] = DOMAIN neurons
              /\ \A x \in DOMAIN neurons :
                   /\ DOMAIN ret'.matrix[k][x] = DOMAIN neurons[x]
                   /\ \A y \in DOMAIN neurons[x] :
                        ret'.matrix[k][x][y] = neurons[x][y].Weights[k]]_vars

\* SeparateWeights returned two matrices of two cells for a trained SOM whose
\* neurons differ in a weight
C16_Witness ==
    /\ ret.op = "SeparateWeights" /\ panic = "none" /\ calls = 1
    /\ Len(ret.matrix) = 2 /\ NumCells(neurons) = 2
    /\ \E k \in 1..2 : \E c1, c2 \in Cells :
         ret.matrix[k][c1[1]][c1[2]] # ret.matrix[k][c2[1]][c2[2]]

\* what the configured adapter makes of vector v: v itself, or v scaled
\* into the range of the ScalingDataAdapter
AdapterOutput(v) ==
    IF cfg.InDataAdapter.kind = "NoOpAdapter" THEN v
    ELSE [i \in 1..Len(v) |->
            FDiv(FSub(v[i], ScalingMin[i]), FSub(ScalingMax[i], ScalingMin[i]))]

\* an iteration of Learn has completed in this step
IterationCompleted == Len(monitor') = Len(monitor) + 1

\* C17: the input adapter is applied in Learn, Test and ComputeDistanceMatrix.
\* In an iteration of Learn the Distance every neuron is given for the search
\* of the BMU is the distance from the adapter's output for the selected
\* vector, and the BMU's weights move to that output (the restraint and the
\* influence are 1 for the BMU, 0 for the others); Test stores and
\* ComputeDistanceMatrix returns the distances from the adapter's output for
\* their argument.
C17_AdapterOutputIsUsed ==
    [][/\ (IterationCompleted /\ panic' = "none") =>
            LET a == AdapterOutput(selOut'.vector)
            IN  /\ \A c \in Cells :
                     neurons'[c[1]][c[2]].Distance = DistanceTo(neurons, a, c)
                /\ \E bmu \in Cells :
                     /\ neurons'[bmu[1]][bmu[2]].Weights = a
                     /\ \A c \in Cells \ {bmu} :
                          /\ neurons'[c[1]][c[2]].Weights = neurons[c[1]][c[2]].Weights
                          /\ ~DistLt(neurons'[c[1]][c[2]].Distance,
                                     neurons'[bmu[1]][bmu[2]].Distance)
       /\ (Called("Test") /\ panic' = "none") =>
            \A c \in Cells :
              neurons'[c[1]][c[2]].Distance = DistanceTo(neurons, AdapterOutput(ret'.arg), c)
       /\ (Called("ComputeDistanceMatrix") /\ panic' = "none") =>
            \A c \in Cells :
              ret'.matrix[c[1]][c[2]] = DistanceTo(neurons, AdapterOutput(ret'.arg), c)]_vars

\* a SOM with a ScalingDataAdapter has learnt a vector the adapter changed
\* and was then asked about a vector the adapter changed
C17_Witness ==
    /\ ret.op \in {"Test", "ComputeDistanceMatrix"} /\ panic = "none" /\ calls = 1
    /\ cfg.InDataAdapter.kind = "ScalingDataAdapter"
    /\ monitor # <<>>
    /\ ds[learn.set] # dsAtCall[learn.set]
    /\ ret.arg # vec

\* the neuron stored at [x][y] holds the coordinates (x, y), in the grid ns
Placed(ns) ==
    \A x \in DOMAIN ns : \A y \in DOMAIN ns[x] : ns[x][y].X = x /\ ns[x][y].Y = y

\* the grids ns and ms have the same cells, and the same coordinates in them
SameGrid(ns, ms) ==
    /\ DOMAIN ns = DOMAIN ms
    /\ \A x \in DOMAIN ns :
         /\ DOMAIN ns[x] = DOMAIN ms[x]
         /\ \A y \in DOMAIN ns[x] : ns[x][y].X = ms[x][y].X /\ ns[x][y].Y = ms[x][y].Y

\* C21: New(X, Y) creates an X-by-Y grid whose neuron at Neurons[x][y] has
\* X = x and Y = y, and no call of Learn, LearnEntire, Test,
\* ComputeDistanceMatrix or SeparateWeights changes the coordinates of a
\* neuron, the dimensions of the grid or the neuron a cell holds.
C21_CoordinatesAreFixed ==
    /\ \E g \in Grids : LenX(neurons) = g[1] /\ LenY(neurons) = g[2] /\ Placed(neurons)
    /\ [][SameGrid(neurons, neurons') /\ Placed(neurons')]_vars

\* a grid of two cells has been trained and tested, and its weights read
C21_Witness ==
    /\ ret.op = "SeparateWeights" /\ panic = "none"
    /\ calls = 1 /\ queries = MaxQueries /\ monitor # <<>>
    /\ NumCells(neurons) = 2
    /\ \E c \in Cells : neurons[c[1]][c[2]].Distance # F(0)

\* C22: a ScalingDataAdapter built from min and max adapts a vector in
\* place: every coordinate i becomes (v_i - min_i) / (max_i - min_i), and the
\* vector returned is the vector given, as it is after the call; min = [0],
\* max = [10] maps [5] to [1/2], and min = [0, 0, 0], max = [10, 20, 40]
\* maps [10, 10, 10] to [1, 1/2, 1/4].
C22_ScalingAdapterScalesInPlace ==
    (ret.op = "Adapt" /\ panic = "none") =>
        \A r \in ScalingRanges :
            cfg.InDataAdapter = NewScalingDataAdapter(r.min, r.max) =>
                /\ Len(vec) = Len(ret.arg)
                /\ \A i \in 1..Len(ret.arg) :
                     vec[i] = FDiv(FSub(ret.arg[i], r.min[i]), FSub(r.max[i], r.min[i]))
                /\ ret.value = vec
                /\ (r.max = <<F(10)>> /\ ret.arg = <<F(5)>>) => ret.value = <<Rat(1, 2)>>
                /\ (Len(r.max) = 3 /\ ret.arg = <<F(10), F(10), F(10)>>) =>
                     ret.value = <<F(1), Rat(1, 2), Rat(1, 4)>>

\* the adapter built from [0, 0, 0] and [10, 20, 40] has adapted [10, 10, 10]
C22_Witness ==
    /\ ret.op = "Adapt" /\ panic = "none"
    /\ Len(cfg.InDataAdapter.Min) = 3
    /\ ret.arg = <<F(10), F(10), F(10)>>
    /\ vec = <<F(1), Rat(1, 2), Rat(1, 4)>>

\* the cells of the neurons no neuron has a smaller Distance than
MinCells ==
    {c \in Cells : \A e \in Cells :
        ~FLt(neurons[e[1]][e[2]].Distance, neurons[c[1]][c[2]].Distance)}

\* C23: findBMU returns a neuron whose Distance is the minimum over all the
\* neurons: the only such neuron if there is one (the neuron at (0, 0)
\* included), and one of the tied neurons otherwise, each of which is a
\* possible result (findBMU can return it from the state it is called in).
C23_FindBMUReturnsAnyMinimum ==
    /\ ret.op = "findBMU" => ret.bmu \in MinCells
    /\ \A c \in MinCells : c \in FindBMU(neurons)

\* findBMU returned the last of two tied neurons of a grid of four, neither
\* of them the neuron at (0, 0)
C23_Witness ==
    /\ ret.op = "findBMU"
    /\ NumCells(neurons) = 4 /\ Cardinality(MinCells) = 2 /\ <<0, 0>> \notin MinCells
    /\ \A c \in MinCells : CellNo(neurons, c[1], c[2]) <= CellNo(neurons, ret.bmu[1], ret.bmu[2])

\* restraint(t, T) * influence(b, t, T, x, y) for the neuron at c and the
\* BMU at b, in the grid ns
Coefficient(ns, b, t, T, c) ==
    FMul(RestraintApply(cfg.Restraint, t, T),
         InfluenceApply(cfg.Influence, ns[b[1]][b[2]], t, T, c[1], c[2]))

\* the neurons ms of least Distance: the neurons findBMU can have chosen
LeastDistant(ms) ==
    {c \in Cells : \A e \in Cells : ~DistLt(ms[e[1]][e[2]].Distance, ms[c[1]][c[2]].Distance)}

\* the weights new are the input
IsInput(new, w, in) == new = in

\* every weight of new is the float64 w_k + (in_k - w_k), which is in_k where
\* w_k is zero or in_k already
IsRoundedInput(new, w, in) ==
    \A k \in 1..Len(w) :
      /\ new[k] = FAdd(w[k], FSub(in[k], w[k]))
      /\ (w[k] = F(0) \/ w[k] = in[k]) => new[k] = in[k]

AtOne(rounded, new, w, in) ==
    IF rounded THEN IsRoundedInput(new, w, in) ELSE IsInput(new, w, in)

\* The step of a completed iteration t (from 0) of Learn(ds, T), with the
\* adapted input in and the BMU b, takes every weight w_k of every neuron
\* (x, y) to w_k + restraint(t, T) * influence(b, t, T, x, y) * (in_k - w_k),
\* computed from the w_k the neuron had; a neuron whose coefficient is 0 stays
\* as it was, and the weights new of one whose coefficient is 1 are
\* AtOne(rounded, new, w, in).
WeightsMoveByCoefficient(rounded) ==
    (IterationCompleted /\ panic' = "none") =>
      LET in == AdapterOutput(selOut'.vector)
      IN  \E b \in LeastDistant(neurons') :
            \A c \in Cells :
              LET w == neurons[c[1]][c[2]].Weights
                  cof == Coefficient(neurons, b, learn.it, learn.T, c)
              IN  /\ Len(neurons'[c[1]][c[2]].Weights) = Len(w)
                  /\ \A k \in 1..Len(w) :
                       neurons'[c[1]][c[2]].Weights[k] =
                         FAdd(w[k], FMul(cof, FSub(in[k], w[k])))
                  /\ cof = F(0) => neurons'[c[1]][c[2]].Weights = w
                  /\ cof = F(1) => AtOne(rounded, neurons'[c[1]][c[2]].Weights, w, in)

\* C24 as it is stated: iteration t (from 0) of Learn(ds, T), with the
\* adapted input in and the BMU b, takes every weight w_k of every neuron
\* (x, y) to w_k + restraint(t, T) * influence(b, t, T, x, y) * (in_k - w_k),
\* computed from the w_k the neuron had; a neuron whose coefficient is 0 stays
\* as it was, one whose coefficient is 1 becomes equal to the input.
C24_CoefficientOneGivesTheInput == [][WeightsMoveByCoefficient(FALSE)]_vars

\* C24, amended: the same update of every weight, in float64; a neuron whose
\* coefficient is 0 stays as it was, and every weight of one whose
\* coefficient is 1 becomes the float64 w_k + (in_k - w_k): the input where
\* w_k was zero or the input already, and where the difference is rounded a
\* number that can differ from the input in its last bits.
C24_WeightsMoveByCoefficient == [][WeightsMoveByCoefficient(TRUE)]_vars

\* the first iteration of a Learn with a RadiusReducingConstantInfluenceFunc
\* has moved two neurons with the coefficient 1: one had the weights of the
\* input and has them still, the other has the float64 w + (in - w), which
\* is not the input
C24_Witness ==
    /\ pc = "loop" /\ panic = "none" /\ Len(monitor) = 1
    /\ cfg.Influence = "RadiusReducingConstantInfluenceFunc"
    /\ NumCells(neurons) = 2
    /\ \E b, c \in Cells :
         LET w == initW[b[1]][b[2]]
             new == neurons[b[1]][b[2]].Weights
         IN  /\ b # c
             /\ initW[c[1]][c[2]] = selOut.vector
             /\ neurons[c[1]][c[2]].Weights = selOut.vector
             /\ new # selOut.vector
             /\ new # w
             /\ new = [k \in 1..Len(w) |-> FAdd(w[k], FSub(selOut.vector[k], w[k]))]

\* the square of the grid distance from the candidate to the BMU of the call
SquaredGridDistance ==
    (ret.arg.bmu[1] - ret.arg.x) * (ret.arg.bmu[1] - ret.arg.x)
      + (ret.arg.bmu[2] - ret.arg.y) * (ret.arg.bmu[2] - ret.arg.y)

\* the float64s d and R / (1 + t/T) of the call, for the radius R, the
\* iterations number T and the grid distance d from the candidate to the BMU
ReducedRadius(t) ==
    FDiv(ret.arg.radius, FAdd(F(1), FDiv(F(t), F(ret.arg.itNum))))
DistanceToBMU == Sqrt(F(SquaredGridDistance))

\* Over the real numbers d <= R / (1 + t/T), for R = n/m: the squares of the
\* two sides are compared, in whole numbers.
WithinExactRadius(t) ==
    SquaredGridDistance * ret.arg.radius[2] * ret.arg.radius[2]
                        * (ret.arg.itNum + t) * (ret.arg.itNum + t)
      <= ret.arg.radius[1] * ret.arg.radius[1] * ret.arg.itNum * ret.arg.itNum

\* In float64 d <= R / (1 + t/T): the comparison of the float64s the two
\* expressions give.
WithinFloatRadius(t) ==
    FLt(DistanceToBMU, ReducedRadius(t)) \/ DistEq(DistanceToBMU, ReducedRadius(t))

\* The value of call number Len(hist), with t = Len(hist) - 1, is 1 exactly
\* when d <= R / (1 + t/T), over the float64s (rounded) or over the real
\* numbers, and 0 otherwise; for t < T the BMU gets 1, a neuron with
\* d <= R/2 gets 1 and a neuron with d > R gets 0; a value that was 0 at an
\* earlier t is 0.  R/2 and R are compared to d by their squares, in whole
\* numbers: a radius n/m with n < Base and m <= Base is above, equal to or
\* below the float64 d as it is to the real d.
InfluenceWithinRadius(rounded) ==
    (ret.op = "Apply" /\ hist # <<>>) =>
      LET k == Len(hist)
          t == k - 1
          n == ret.arg.radius[1]
          m == ret.arg.radius[2]
      IN  /\ hist[k] \in {F(0), F(1)}
          /\ hist[k] = F(1) <=> (IF rounded THEN WithinFloatRadius(t)
                                            ELSE WithinExactRadius(t))
          /\ t < ret.arg.itNum =>
               /\ SquaredGridDistance = 0 => hist[k] = F(1)
               /\ 4 * SquaredGridDistance * m * m <= n * n => hist[k] = F(1)
               /\ SquaredGridDistance * m * m > n * n => hist[k] = F(0)
          /\ \A j \in 1..(k - 1) : hist[j] = F(0) => hist[k] = F(0)

\* C25 as it is stated: RadiusReducingConstantInfluenceFunc with a radius
\* R >= 0 returns 1 exactly when the grid distance d from the candidate to
\* the BMU is at most R / (1 + t/T), and 0 otherwise; so for 0 <= t < T the
\* BMU gets 1, a neuron with d <= R/2 gets 1, a neuron with d > R gets 0,
\* and the value for one BMU and candidate never goes from 0 back to 1 as t
\* grows.
C25_InfluenceWithinExactRadius == InfluenceWithinRadius(FALSE)

\* C25, amended: RadiusReducingConstantInfluenceFunc with a radius R >= 0
\* returns 1 exactly when the float64 d = Sqrt(dx^2 + dy^2) is at most the
\* float64 R / (1 + t/T), which can be below the quotient of the real
\* numbers, and 0 otherwise; for 0 <= t < T the BMU gets 1, a neuron with
\* that d <= R/2 gets 1, a neuron with that d > R gets 0, and the value for
\* one BMU and candidate never goes from 0 back to 1 as t grows.
C25_InfluenceWithinReducedRadius == InfluenceWithinRadius(TRUE)

\* a candidate within the radius at t = 0 and out of the reduced radius
\* later, at the t where the quotient is rounded to a float64 below d:
\* 5.5 / (1 + 5/6) is 3 and the float64 of it 2.9999999999999996
C25_Witness ==
    /\ ret.op = "Apply"
    /\ WithinExactRadius(5) /\ ~WithinFloatRadius(5)
    /\ ret.arg.radius = Rat(11, 2) /\ ret.arg.itNum = 6
    /\ SquaredGridDistance = 9
    /\ Len(hist) = 6
    /\ hist[1] = F(1)
    /\ hist[5] = F(1)
    /\ hist[6] = F(0)

\* C26: during Learn(ds, T) the monitor's ItCompleted is called once after
\* each completed iteration, after the weights were updated, with
\* it = 1, 2, ..., c in this order for the c completed iterations, always
\* 1 <= it <= T and itNum = T; the step in which the selector reports
\* ErrNoDataLeft calls nothing.
C26_MonitorCalledOncePerIteration ==
    /\ [](/\ \A k \in 1..Len(monitor) :
               /\ monitor[k] = <<k, learn.T>>
               /\ 1 <= k /\ k <= learn.T
          /\ Len(monitor) = learn.it)
    /\ [][/\ (Len(hist') > Len(hist) /\ selOut'.err = "nil" /\ panic' = "none") =>
               /\ monitor' = Append(monitor, <<Len(monitor) + 1, learn.T>>)
               /\ \E b \in LeastDistant(neurons') :
                    \A c \in Cells : \A i \in 1..Len(neurons[c[1]][c[2]].Weights) :
                      neurons'[c[1]][c[2]].Weights[i] =
                        FAdd(neurons[c[1]][c[2]].Weights[i],
                             FMul(Coefficient(neurons, b, learn.it, learn.T, c),
                                  FSub(selOut'.vector[i], neurons[c[1]][c[2]].Weights[i])))
          /\ (Len(hist') > Len(hist) /\ selOut'.err # "nil") => monitor' = monitor
          /\ (pc = "loop" /\ hist' = hist) => monitor' = monitor]_vars

\* Learn(ds, 2) on a data set of one vector: one call, then the selector has
\* nothing left
C26_Witness ==
    /\ calls = 1 /\ pc = "idle" /\ panic = "none"
    /\ learn.T = MaxIter
    /\ selOut.err = "ErrNoDataLeft"
    /\ monitor = <<<<1, MaxIter>>>>

\* C27: every Learn runs the initializer before its first iteration: after
\* Learn(ds1, n1), the call Learn(ds2, n2) starts its first iteration with
\* the weights the initializer gives for ds2, of the width of ds2, whatever
\* weights the first call left.
C27_SecondLearnStartsFromInitializer ==
    [][(calls = 1 /\ calls' = 2 /\ panic' = "none") =>
         LET fresh == New(LenX(neurons), LenY(neurons))
             kind == cfg.Initializer
             vectors == ds[learn'.set]
         IN  /\ pc' = "loop" /\ learn'.it = 0
             /\ \A c \in Cells :
                  Len(neurons'[c[1]][c[2]].Weights) = DataSetWidth(vectors).width
             /\ \E draw \in InitializerDraws(kind, vectors, fresh) :
                  WeightsOf(neurons') =
                    WeightsOf(InitializerInit(kind, vectors, fresh, draw).neurons)]_vars

\* the second Learn is about to make its first iteration on a data set of
\* another width than the first one's
C27_Witness ==
    /\ calls = 2 /\ pc = "loop" /\ panic = "none"
    /\ learn.set = "ds2" /\ learn.it = 0 /\ learn.T > 0
    /\ Len(ds["ds1"][1]) # Len(ds["ds2"][1])
    /\ \A c \in Cells : Len(neurons[c[1]][c[2]].Weights) = Len(ds["ds2"][1])

\* the neurons whose weights are not those the initializer gave them
MovedCells == {c \in Cells : neurons[c[1]][c[2]].Weights # initW[c[1]][c[2]]}

\* the adapted vectors the iterations of the current Learn have consumed
ConsumedInputs == {AdapterOutput(hist[k].vector) : k \in {m \in 1..Len(hist) : hist[m].err = "nil"}}

DefaultPolicies ==
    cfg.Restraint = "NoRestraintFunc" /\ cfg.Influence = "BMUOnlyInfluencedFunc"

\* a completed iteration with the default policies changes the weights of the
\* BMU alone, and the weights new of the BMU are AtOne(rounded, new, w, in) for the
\* weights w it had and the adapted input in
OnlyTheBMUMoves(rounded) ==
    (DefaultPolicies /\ IterationCompleted) =>
      \E b \in LeastDistant(neurons') :
        /\ AtOne(rounded, neurons'[b[1]][b[2]].Weights, neurons[b[1]][b[2]].Weights,
                 AdapterOutput(selOut'.vector))
        /\ \A c \in Cells \ {b} :
             neurons'[c[1]][c[2]].Weights = neurons[c[1]][c[2]].Weights

\* C28 as it is stated: with NoRestraintFunc and BMUOnlyInfluencedFunc each
\* completed iteration of Learn changes the weights of at most one neuron,
\* the BMU, which becomes equal to the adapted input; so during Learn the
\* weights of each neuron are those the initializer gave it or an adapted
\* vector consumed so far, and at most as many neurons differ from their
\* initializer value as iterations have completed.
C28_TheBMUBecomesTheInput ==
    /\ [](DefaultPolicies =>
            /\ \A c \in Cells :
                 \/ neurons[c[1]][c[2]].Weights = initW[c[1]][c[2]]
                 \/ neurons[c[1]][c[2]].Weights \in ConsumedInputs
            /\ Cardinality(MovedCells) <= Len(monitor))
    /\ [][OnlyTheBMUMoves(FALSE)]_vars

\* C28, amended: with NoRestraintFunc and BMUOnlyInfluencedFunc each
\* completed iteration of Learn changes the weights of at most one neuron,
\* the BMU, whose every weight becomes the float64 w_k + (in_k - w_k) for
\* the adapted input in: the input where w_k was zero or the input already;
\* at most as many neurons differ from their initializer value as iterations
\* have completed, and while none has completed every neuron has the
\* weights the initializer gave it.
C28_OnlyTheBMUMoves ==
    /\ [](DefaultPolicies =>
            /\ Cardinality(MovedCells) <= Len(monitor)
            /\ ConsumedInputs = {} => MovedCells = {})
    /\ [][OnlyTheBMUMoves(TRUE)]_vars

\* the first iteration of a Learn with the default policies has moved one of
\* two neurons, to weights that the rounding of w + (in - w) keeps from being
\* the adapted input; the other has its initializer value
C28_Witness ==
    /\ pc = "loop" /\ panic = "none" /\ Len(monitor) = 1
    /\ DefaultPolicies
    /\ Cardinality(Cells) = 2
    /\ Cardinality(MovedCells) = 1
    /\ \A c \in MovedCells : neurons[c[1]][c[2]].Weights \notin ConsumedInputs

\* C29: Learn(ds, n) on an empty data set fails with the panic of Width on
\* an empty data set, for each of the three initializers and every n, and
\* before a neuron is modified: the weights, the distances and the
\* coordinates of the grid are those before the call.
C29_LearnOnEmptyDataSetPanicsFirst ==
    [][(calls' = calls + 1 /\ DataSetLen(ds[learn'.set]) = 0) =>
         /\ panic' = "panic: data set contains no elements"
         /\ neurons' = neurons
         /\ monitor' = <<>> /\ hist' = <<>>
         /\ pc' = "idle"]_vars

\* a SOM trained by a first Learn has panicked in a second Learn, on an
\* empty data set, and holds the weights the first one left
C29_Witness ==
    /\ calls = 2 /\ panic = "panic: data set contains no elements"
    /\ DataSetLen(ds[learn.set]) = 0
    /\ \E c \in Cells : \E k \in 1..Len(neurons[c[1]][c[2]].Weights) :
         neurons[c[1]][c[2]].Weights[k] # F(0)

----------------------------------------------------------------------------
(* Claims about DataSet *)

\* the call that returned last was a call of op, and it did not panic
DataSetReturned(op) == ret.op = op /\ panic = "none"

\* the data set of the last call, before the call and now
Before == dsAtCall[ret.set]
Now == ds[ret.set]

\* the middle of the i-th of n segments of a data set of length len
SegmentMiddle(i, len, n) == ((i * len) \div n + ((i + 1) * len) \div n) \div 2

\* C15: Reduce(n) leaves a data set of length L <= n unchanged; when
\* L > n >= 1 it leaves n vectors, the i-th (i in 0..n-1) being the original
\* vector at index (floor(i*L/n) + floor((i+1)*L/n)) >> 1, and these indexes
\* are strictly increasing and less than L.
C15_ReduceKeepsSegmentMiddles ==
    DataSetReturned("Reduce") =>
        LET len == DataSetLen(Before)
            n == ret.arg[1]
        IN  /\ len <= n => Now = Before
            /\ (len > n /\ n >= 1) =>
                 /\ DataSetLen(Now) = n
                 /\ \A i \in 0..(n - 1) :
                      /\ SegmentMiddle(i, len, n) < len
                      /\ At(Now, i) = At(Before, SegmentMiddle(i, len, n))
                 /\ \A i \in 0..(n - 2) :
                      SegmentMiddle(i, len, n) < SegmentMiddle(i + 1, len, n)


\* C18: Add(v) on a non-empty data set whose vectors have another length
\* than v panics and leaves the vectors of the data set as they were; Add on
\* an empty data set or with a v of the data set's width appends v as the
\* last vector and changes nothing else.
C18_AddChecksWidthThenAppends ==
    ret.op \in {"Add", "AddRaw"} =>
        IF DataSetLen(Before) # 0 /\ Len(Before[1]) # Len(ret.arg)
        THEN panic # "none" /\ Now = Before
        ELSE /\ panic = "none"
             /\ DataSetLen(Now) = DataSetLen(Before) + 1
             /\ Now[DataSetLen(Now)] = ret.arg
             /\ \A i \in 1..DataSetLen(Before) : Now[i] = Before[i]
             /\ \A d \in DsIds \ {ret.set} : ds[d] = dsAtCall[d]

\* Add was refused a vector longer than the vectors of a data set that holds
\* two of them
C18_Witness ==
    /\ ret.op = "Add" /\ panic # "none"
    /\ DataSetLen(Before) = 2
    /\ Len(ret.arg) > Len(Before[1])

\* C19: after any sequence of Add, AddRaw, Shuffle, Copy, Sort and Reduce on
\* data sets created empty, all the vectors of a non-empty data set have the
\* same length, and that length is Width().
C19_VectorsHaveTheWidth ==
    \A d \in DsIds :
        DataSetLen(ds[d]) # 0 =>
            /\ DataSetWidth(ds[d]).err = "nil"
            /\ \A i, j \in 1..DataSetLen(ds[d]) : Len(ds[d][i]) = Len(ds[d][j])
            /\ \A i \in 1..DataSetLen(ds[d]) : Len(ds[d][i]) = DataSetWidth(ds[d]).width

\* Reduce has dropped a vector of a data set while the other data set holds
\* two vectors of another length
C19_Witness ==
    /\ DataSetReturned("Reduce")
    /\ DataSetLen(Now) >= 1 /\ DataSetLen(Now) < DataSetLen(Before)
    /\ \E d \in DsIds \ {ret.set} :
         DataSetLen(ds[d]) = 2 /\ Len(ds[d][1]) # Len(Now[1])

\* the first coordinate, counted from 1, in which a and b differ, or 0
FirstDifference(a, b) ==
    LET diff == {k \in 1..Len(a) : a[k] # b[k]}
    IN  IF diff = {} THEN 0 ELSE CHOOSE k \in diff : \A m \in diff : k <= m

\* C20: Sort leaves a permutation of the vectors the data set held, in
\* ascending lexicographic order: of two neighbours A and B, either A equals
\* B or A is smaller in the first coordinate in which they differ.
C20_SortIsAscendingPermutation ==
    DataSetReturned("Sort") =>
        /\ \E p \in Perms(DataSetLen(Before)) : Now = DataSetShuffle(Before, p)
        /\ \A i \in 1..(DataSetLen(Now) - 1) :
             \/ Now[i] = Now[i + 1]
             \/ /\ FirstDifference(Now[i], Now[i + 1]) # 0
                /\ FLt(Now[i][FirstDifference(Now[i], Now[i + 1])],
                       Now[i + 1][FirstDifference(Now[i], Now[i + 1])])

\* Sort has exchanged two vectors that agree in their first coordinate
C20_Witness ==
    /\ DataSetReturned("Sort")
    /\ DataSetLen(Now) >= 2 /\ Now # Before
    /\ \E i \in 1..(DataSetLen(Now) - 1) :
         Len(Now[i]) = 2 /\ Now[i][1] = Now[i + 1][1] /\ Now[i][2] # Now[i + 1][2]

====
